---------------------------- MODULE Spec2Model ----------------------------
(***************************************************************************)
(* A model of the NVMe driver core (src/src/queues.rs, src/src/device.rs). *)
(*                                                                         *)
(* The module holds several specifications over one set of variables:      *)
(*   SpecSQ   the submission ring (SubQueue) with a controller that        *)
(*            fetches commands and reports its head                        *)
(*   SpecCQ   the completion ring (CompQueue) with a controller that       *)
(*            posts phase-tagged entries                                   *)
(*   SpecDB   the doorbell addressing                                      *)
(*   SpecPRP  the PRP construction of a transfer                           *)
(*   SpecST   the decoding of a completion status word                     *)
(*   SpecNS   the command a namespace operation builds                     *)
(*   Spec     the device from init to drop, with two threads               *)
(*   SpecPool the device after init and a call of set_ioq_count            *)
(*   SpecRace three threads on a device whose pool is at the limit         *)
(* Variables a specification does not use keep their initial value.        *)
(***************************************************************************)
EXTENDS Integers, Sequences, FiniteSets, TLC

VARIABLES
    sq,         \* SubQueue under test: [len, head, tail, slots]
    cq,         \* CompQueue under test: [len, head, phase, slots]
    ctrl,       \* controller side of the rings: [sqHead, cqTail, cqPhase]
    out,        \* the last call and what it returned
    hist,       \* history counters of the ring specifications
    shutting_down,  \* DeviceInner.shutting_down
    next_queue_id,  \* DeviceInner.next_queue_id
    queue_selector, \* DeviceInner.queue_selector
    ioq,        \* DeviceInner.ioq: the pool, a sequence of queue ids
    ioq_lock,   \* holder of the pool mutex
    pairs,      \* the IoQueuePair objects by queue id, each with its mutex
    admin_sq,   \* NVMeDevice.admin_sq
    admin_cq,   \* NVMeDevice.admin_cq
    admin_lock, \* holder of NVMeDevice.admin_lock
    hw,         \* the controller: enable bit, queues it knows, ring positions
    namespaces, \* NVMeDevice.namespaces: the records by ascending id
    pc,         \* position of every thread
    loc,        \* local variables of every thread
    ghost       \* history of the device specification

unitVars == <<sq, cq, ctrl, out, hist>>

devVars == <<shutting_down, next_queue_id, queue_selector, ioq, ioq_lock,
             pairs, admin_sq, admin_cq, admin_lock, hw, namespaces, pc, loc,
             ghost>>

vars == <<sq, cq, ctrl, out, hist, shutting_down, next_queue_id,
          queue_selector, ioq, ioq_lock, pairs, admin_sq, admin_cq,
          admin_lock, hw, namespaces, pc, loc, ghost>>

(***************************************************************************)
(* Bounds of the model.                                                    *)
(***************************************************************************)
\* Ring lengths tried by the ring specifications: 2..MaxLen.
MaxLen == 4
\* The completion-ring specification stops after MaxWraps * len pops.
MaxWraps == 2

Lens == 2..MaxLen

(***************************************************************************)
(* Commands and completions, reduced to the fields the driver core reads.  *)
(***************************************************************************)
\* A zeroed 64-byte command slot.
ZeroCmd == [opc |-> "zero", cid |-> 0, arg |-> 0]

\* Commands pushed by the ring specification.
CmdSamples == { [opc |-> "flush", cid |-> c, arg |-> 1] : c \in 0..1 }

\* Completion entry: status bit 0 is the phase tag, bits 1.. the status code.
Completion(status, sq_head, cid) ==
    [status |-> status, sq_head |-> sq_head, cid |-> cid]

PhaseBit(p) == IF p THEN 1 ELSE 0

(***************************************************************************)
(* SubQueue (queues.rs)                                                    *)
(***************************************************************************)
SubQueueNew(len) ==
    [len |-> len, head |-> 0, tail |-> 0,
     slots |-> [i \in 0..(len - 1) |-> ZeroCmd]]

SetHead(q, head) == [q EXCEPT !.head = head]

\* try_push with the wrap of the tail left out.
TryPushNoWrap(q, entry) ==
    IF q.head = (q.tail + 1) % q.len
    THEN [ok |-> FALSE, sq |-> q, tail |-> q.tail]
    ELSE [ok |-> TRUE,
          sq |-> [q EXCEPT !.slots = [i \in DOMAIN q.slots \cup {q.tail} |->
                                        IF i = q.tail THEN entry ELSE q.slots[i]],
                           !.tail = q.tail + 1],
          tail |-> q.tail + 1]

\* try_push that takes the queue to be full only when head = tail + 1
\* without the wrap.
TryPushFullNoWrap(q, entry) ==
    IF q.head = q.tail + 1
    THEN [ok |-> FALSE, sq |-> q, tail |-> q.tail]
    ELSE [ok |-> TRUE,
          sq |-> [q EXCEPT !.slots[q.tail] = entry,
                           !.tail = (q.tail + 1) % q.len],
          tail |-> (q.tail + 1) % q.len]

\* try_push: [ok, sq, tail]; ok = FALSE is Err(SubQueueFull).
TryPush(q, entry) ==
    IF q.head = (q.tail + 1) % q.len
    THEN [ok |-> FALSE, sq |-> q, tail |-> q.tail]
    ELSE [ok |-> TRUE,
          sq |-> [q EXCEPT !.slots[q.tail] = entry,
                           !.tail = (q.tail + 1) % q.len],
          tail |-> (q.tail + 1) % q.len]

(***************************************************************************)
(* CompQueue (queues.rs)                                                   *)
(***************************************************************************)
CompQueueNew(len, mem) ==
    [len |-> len, head |-> 0, phase |-> TRUE, slots |-> mem]

\* try_pop that never toggles the phase.
TryPopNoToggle(q) ==
    LET entry == q.slots[q.head] IN
    IF ((entry.status % 2) = 1) = q.phase
    THEN [ok |-> TRUE, cq |-> [q EXCEPT !.head = (q.head + 1) % q.len],
          head |-> (q.head + 1) % q.len, entry |-> entry]
    ELSE [ok |-> FALSE, cq |-> q, head |-> q.head, entry |-> entry]

\* try_pop that toggles the phase one entry early.
TryPopEarlyToggle(q) ==
    LET entry == q.slots[q.head]
        nh    == (q.head + 1) % q.len
    IN  IF ((entry.status % 2) = 1) = q.phase
        THEN [ok |-> TRUE,
              cq |-> [q EXCEPT !.head = nh,
                               !.phase = IF q.head = 0 THEN ~q.phase ELSE q.phase],
              head |-> nh, entry |-> entry]
        ELSE [ok |-> FALSE, cq |-> q, head |-> q.head, entry |-> entry]

\* try_pop: [ok, cq, head, entry]; ok = FALSE is None.
TryPop(q) ==
    LET entry == q.slots[q.head]
        nh    == (q.head + 1) % q.len
    IN  IF ((entry.status % 2) = 1) = q.phase
        THEN [ok |-> TRUE,
              cq |-> [q EXCEPT !.head = nh,
                               !.phase = IF nh = 0 THEN ~q.phase ELSE q.phase],
              head |-> nh, entry |-> entry]
        ELSE [ok |-> FALSE, cq |-> q, head |-> q.head, entry |-> entry]

(***************************************************************************)
(* Values of the variables a specification does not use.                   *)
(***************************************************************************)
NoQueue == [len |-> 0]
NoCtrl  == [sqHead |-> 0, cqTail |-> 0, cqPhase |-> TRUE]
NoOut   == [op |-> "none"]
NoHist  == [pushes |-> 0]

\* The device variables in the ring and pure-function specifications.
DevOff ==
    /\ shutting_down = FALSE
    /\ next_queue_id = 1
    /\ queue_selector = 0
    /\ ioq = <<>>
    /\ ioq_lock = ""
    /\ pairs = <<>>
    /\ admin_sq = NoQueue
    /\ admin_cq = NoQueue
    /\ admin_lock = ""
    /\ hw = [en |-> FALSE]
    /\ namespaces = <<>>
    /\ pc = <<>>
    /\ loc = <<>>
    /\ ghost = <<>>

(***************************************************************************)
(* SpecSQ: one SubQueue, pushed to by the host and drained by a controller *)
(* whose head the host learns from completions.                            *)
(* hist: pushes = successful pushes since the last set_head; tick flips at *)
(* every host call; stage follows one round of fill, free, push again.     *)
(***************************************************************************)
InitSQ ==
    /\ DevOff
    /\ \E len \in Lens : sq = SubQueueNew(len)
    /\ cq = NoQueue
    /\ ctrl = NoCtrl
    /\ out = NoOut
    /\ hist = [pushes |-> 0, tick |-> 0, stage |-> "none"]

SqIsFull(q) == q.head = (q.tail + 1) % q.len

StageAfterPush(ok) ==
    IF ok THEN (IF hist.stage = "freed" THEN "pushed" ELSE "none") ELSE "full"

\* try_push(entry)
SqTryPush ==
    \E entry \in CmdSamples :
        LET r == TryPush(sq, entry) IN
        /\ sq' = r.sq
        /\ out' = [op |-> "try_push", ok |-> r.ok, val |-> r.tail, entry |-> entry]
        /\ hist' = [pushes |-> IF r.ok THEN hist.pushes + 1 ELSE hist.pushes,
                    tick |-> 1 - hist.tick,
                    stage |-> StageAfterPush(r.ok)]
        /\ UNCHANGED <<cq, ctrl, devVars>>

\* push(entry): spins on try_push until it succeeds.
SqPush ==
    \E entry \in CmdSamples :
        LET r == TryPush(sq, entry) IN
        /\ r.ok
        /\ sq' = r.sq
        /\ out' = [op |-> "push", ok |-> TRUE, val |-> r.tail, entry |-> entry]
        /\ hist' = [pushes |-> hist.pushes + 1,
                    tick |-> 1 - hist.tick,
                    stage |-> StageAfterPush(TRUE)]
        /\ UNCHANGED <<cq, ctrl, devVars>>

\* The controller fetches the command at its head (the tail doorbell is
\* written right after every push).
SqCtrlFetch ==
    /\ ctrl.sqHead # sq.tail
    /\ ctrl' = [ctrl EXCEPT !.sqHead = (ctrl.sqHead + 1) % sq.len]
    /\ UNCHANGED <<sq, cq, out, hist, devVars>>

\* Ring positions from a up to b, going forward.
RingRange(a, b, len) == { (a + k) % len : k \in 0..((b - a) % len) }

\* set_head(h), h the sq_head of a completion: a position the controller's
\* head has held since the host's head.
SqSetHead ==
    \E h \in RingRange(sq.head, ctrl.sqHead, sq.len) :
        /\ sq' = SetHead(sq, h)
        /\ out' = [op |-> "set_head", ok |-> TRUE, val |-> h, entry |-> ZeroCmd]
        /\ hist' = [pushes |-> 0,
                    tick |-> 1 - hist.tick,
                    stage |-> IF hist.stage = "full" /\ h # sq.head
                              THEN "freed" ELSE "none"]
        /\ UNCHANGED <<cq, ctrl, devVars>>

NextSQ == SqTryPush \/ SqPush \/ SqCtrlFetch \/ SqSetHead

SpecSQ == InitSQ /\ [][NextSQ]_vars

\* A step that is the host call op.
IsCall(op) == hist'.tick # hist.tick /\ out'.op = op

(***************************************************************************)
(* C4  SQ wrap: under every sequence of push, try_push and set_head on a   *)
(* SubQueue of length len, head and tail stay ring indices in 0..len-1,    *)
(* and so does the occupancy (tail - head) mod len.                        *)
(***************************************************************************)
SqWrapInvariant ==
    /\ sq.head \in 0..(sq.len - 1)
    /\ sq.tail \in 0..(sq.len - 1)
    /\ DOMAIN sq.slots = 0..(sq.len - 1)
    /\ (sq.tail - sq.head) % sq.len \in 0..(sq.len - 1)

\* The tail has wrapped past the end of the ring while the head has moved.
SqWrapWitness ==
    /\ out.op = "push"
    /\ sq.tail = 0
    /\ sq.head = sq.len - 1
    /\ sq.len = MaxLen

(***************************************************************************)
(* C5  SQ capacity: try_push fails with SubQueueFull exactly when          *)
(* head = (tail+1) mod len and then changes nothing; otherwise it writes   *)
(* the command to slots[tail], advances tail to (tail+1) mod len and       *)
(* returns the new tail.  So at most len-1 pushes succeed without a        *)
(* completion, and once set_head has advanced the head of a full queue a   *)
(* push succeeds.                                                          *)
(***************************************************************************)
SqCapacity ==
    /\ [][IsCall("try_push") =>
            IF sq.head = (sq.tail + 1) % sq.len
            THEN ~out'.ok /\ sq' = sq
            ELSE /\ out'.ok
                 /\ sq'.slots = [sq.slots EXCEPT ![sq.tail] = out'.entry]
                 /\ sq'.tail = (sq.tail + 1) % sq.len
                 /\ sq'.head = sq.head
                 /\ sq'.len = sq.len
                 /\ out'.val = sq'.tail]_vars
    /\ [](hist.pushes <= sq.len - 1)
    /\ [][(IsCall("set_head") /\ SqIsFull(sq) /\ sq'.head # sq.head)
            => ~SqIsFull(sq') /\ TryPush(sq', ZeroCmd).ok]_vars
    /\ [](hist.stage = "freed" => ~SqIsFull(sq))

\* A queue filled by len-1 pushes refused a push, one completion moved the
\* head, and the next try_push succeeded.
SqCapacityWitness ==
    /\ hist.stage = "pushed"
    /\ out.op = "try_push"
    /\ out.ok
    /\ hist.pushes = 1

(***************************************************************************)
(* SpecCQ: one CompQueue, popped by the host and filled by a controller    *)
(* that tags every entry with its own phase and never overruns the host's  *)
(* head.  The ring memory comes from the allocator as it is (memory.rs:    *)
(* "Returns uninitialized memory"), so the first phase tags are arbitrary. *)
(* hist: pops = successful pops, flips = changes of the phase, since[i] =  *)
(* pops of slot i since the controller last wrote it.                      *)
(***************************************************************************)
\* Status codes the controller of the ring specification posts.
StatusSamples == {0, 1}

InitCQ ==
    /\ DevOff
    /\ \E len \in Lens :
         \E mem \in [0..(len - 1) -> {Completion(b, 0, 0) : b \in 0..1}] :
            /\ cq = CompQueueNew(len, mem)
            /\ hist = [pops |-> 0, flips |-> 0, tick |-> 0,
                       since |-> [i \in 0..(len - 1) |-> 0]]
    /\ sq = NoQueue
    /\ ctrl = NoCtrl
    /\ out = NoOut

CqHistAfter(r) ==
    [pops  |-> IF r.ok THEN hist.pops + 1 ELSE hist.pops,
     flips |-> IF r.cq.phase # cq.phase THEN hist.flips + 1 ELSE hist.flips,
     tick  |-> 1 - hist.tick,
     since |-> IF r.ok THEN [hist.since EXCEPT ![cq.head] = @ + 1]
               ELSE hist.since]

\* try_pop()
CqTryPop ==
    LET r == TryPop(cq) IN
    /\ r.ok => hist.pops < MaxWraps * cq.len
    /\ cq' = r.cq
    /\ out' = [op |-> "try_pop", ok |-> r.ok, val |-> r.head, entry |-> r.entry]
    /\ hist' = CqHistAfter(r)
    /\ UNCHANGED <<sq, ctrl, devVars>>

\* pop(): spins on try_pop until an entry is valid.
CqPop ==
    LET r == TryPop(cq) IN
    /\ r.ok
    /\ hist.pops < MaxWraps * cq.len
    /\ cq' = r.cq
    /\ out' = [op |-> "pop", ok |-> TRUE, val |-> r.head, entry |-> r.entry]
    /\ hist' = CqHistAfter(r)
    /\ UNCHANGED <<sq, ctrl, devVars>>

\* The controller posts a completion at its tail, tagged with its phase,
\* unless that would overrun the head the host last wrote to the doorbell
\* (the head doorbell is written right after every pop).
CqCtrlPost ==
    /\ (ctrl.cqTail + 1) % cq.len # cq.head
    /\ \E sc \in StatusSamples :
         cq' = [cq EXCEPT !.slots[ctrl.cqTail] =
                    Completion(2 * sc + PhaseBit(ctrl.cqPhase), 0, 0)]
    /\ ctrl' = [ctrl EXCEPT
                  !.cqTail = (ctrl.cqTail + 1) % cq.len,
                  !.cqPhase = IF ctrl.cqTail = cq.len - 1
                              THEN ~ctrl.cqPhase ELSE ctrl.cqPhase]
    /\ hist' = [hist EXCEPT !.since[ctrl.cqTail] = 0]
    /\ UNCHANGED <<sq, out, devVars>>

NextCQ == CqTryPop \/ CqPop \/ CqCtrlPost

SpecCQ == InitCQ /\ [][NextCQ]_vars

(***************************************************************************)
(* C6  CQ try_pop returns the entry at slots[head] and advances head to    *)
(* (head+1) mod len, toggling the phase when head wraps to 0, if and only  *)
(* if bit 0 of the entry's status equals the queue's phase; otherwise it   *)
(* returns nothing and leaves head and phase as they are.  No entry is     *)
(* returned twice unless the controller has rewritten it in between.       *)
(***************************************************************************)
CqTryPopContract ==
    /\ [][IsCall("try_pop") =>
            LET e == cq.slots[cq.head] IN
            IF (e.status % 2) = PhaseBit(cq.phase)
            THEN /\ out'.ok
                 /\ out'.entry = e
                 /\ cq'.head = (cq.head + 1) % cq.len
                 /\ cq'.phase = (IF cq.head = cq.len - 1 THEN ~cq.phase ELSE cq.phase)
                 /\ out'.val = cq'.head
                 /\ cq'.slots = cq.slots
            ELSE ~out'.ok /\ cq' = cq]_vars
    /\ [](\A i \in DOMAIN hist.since : hist.since[i] <= 1)

\* After a full lap, try_pop returned a slot the controller rewrote with the
\* flipped phase tag, and a further try_pop found nothing.
CqTryPopWitness ==
    /\ out.op = "try_pop"
    /\ ~out.ok
    /\ hist.pops > cq.len
    /\ ~cq.phase
    /\ \E i \in DOMAIN cq.slots : cq.slots[i].status = 2

(***************************************************************************)
(* C7  CQ phase: the phase starts as true, and after p successful pops on  *)
(* a CompQueue of length len it has flipped exactly p div len times, so    *)
(* exactly k times after k*len pops: once per wrap of head past len-1.     *)
(***************************************************************************)
CqPhaseInvariant ==
    /\ hist.pops = 0 => cq.phase
    /\ hist.flips = hist.pops \div cq.len
    /\ cq.phase = (hist.flips % 2 = 0)
    /\ cq.head = hist.pops % cq.len

\* Two full laps of a ring of length 3: the phase has flipped twice.
CqPhaseWitness ==
    /\ cq.len = 3
    /\ hist.pops = 2 * cq.len
    /\ hist.flips = 2
    /\ cq.phase

(***************************************************************************)
(* SpecDB: DoorbellHelper::write (device.rs).  qid is a u16, and so are    *)
(* the index and the stride the address is computed from: `4 << stride`    *)
(* takes the type of `index`, which it is multiplied with.  A u16 shift    *)
(* drops the bits it shifts out; a u16 multiplication that overflows       *)
(* panics in a build with overflow checks and wraps in one without.        *)
(***************************************************************************)
U16 == 2 ^ 16

\* Offset of the doorbell file in the MMIO window.
DoorbellBase == 4096

Doorbells == {"SubTail", "CompHead"}

\* Queue ids tried: the first I/O queues, the 64 queues init asks for, and
\* the ends of the u16 range.
QidSamples == {0, 1, 2, 3, 15, 16, 63, 64, 8191, 8192, 32767, 32768, 65535}

\* CAP.DSTRD is four bits wide.
Dstrds == 0..15

\* What a u16 operation with exact result x may produce.
U16Outcomes(x) ==
    IF x < U16 THEN {[panic |-> FALSE, val |-> x]}
    ELSE {[panic |-> TRUE, val |-> 0], [panic |-> FALSE, val |-> x % U16]}

\* let stride = 4 << self.stride
DoorbellStride(dstrd) == (4 * (2 ^ dstrd)) % U16

\* The offsets from the MMIO base that write(bell(qid), _) may write to, or
\* a panic: [panic, val].
DoorbellWrite(qid, bell, dstrd) ==
    LET stride == DoorbellStride(dstrd)
        add    == IF bell = "CompHead" THEN 1 ELSE 0
        indexes == U16Outcomes(qid * 2)
        Offsets(ix) ==
            IF ix.panic THEN {ix}
            ELSE { IF p.panic THEN p
                   ELSE [panic |-> FALSE, val |-> DoorbellBase + p.val]
                   : p \in U16Outcomes((ix.val + add) * stride) }
    IN  UNION { Offsets(ix) : ix \in indexes }

\* A call of write(bell(qid), _) on a controller with the given DSTRD.
InitDB ==
    /\ DevOff
    /\ sq = NoQueue
    /\ cq = NoQueue
    /\ ctrl = NoCtrl
    /\ \E qid \in QidSamples, bell \in Doorbells, dstrd \in Dstrds :
         out = [op |-> "call_db_write", qid |-> qid, bell |-> bell, dstrd |-> dstrd]
    /\ hist = NoHist

DbWrite ==
    /\ out.op = "call_db_write"
    /\ \E r \in DoorbellWrite(out.qid, out.bell, out.dstrd) :
         out' = [op |-> "db_write", qid |-> out.qid, bell |-> out.bell,
                 dstrd |-> out.dstrd, panic |-> r.panic, val |-> r.val]
    /\ UNCHANGED <<sq, cq, ctrl, hist, devVars>>

NextDB == DbWrite

SpecDB == InitDB /\ [][NextDB]_vars

(***************************************************************************)
(* C8  Doorbell address: for every queue id, doorbell kind and DSTRD in    *)
(* 0..15, write() writes to offset                                         *)
(*   0x1000 + (2*qid + (1 if CompHead else 0)) * (4 << DSTRD)              *)
(* with no truncation or wrap-around.                                      *)
(***************************************************************************)
DoorbellAddress ==
    out.op = "db_write" =>
        /\ ~out.panic
        /\ out.val = 4096 + (2 * out.qid + (IF out.bell = "CompHead" THEN 1 ELSE 0))
                              * (4 * (2 ^ out.dstrd))

(***************************************************************************)
(* SpecPRP: the data pointers of a read/write command (do_io, device.rs).  *)
(* PrpManager::create is not among the source files; PrpCreate follows     *)
(* section 4.6 of the specification.  Pages are PageSize = 2^PageShift     *)
(* bytes, a PRP list page holds PageSize/8 entries, and the transfer limit *)
(* is 2^MdtsShift pages (device.rs:907-908).                               *)
(***************************************************************************)
PageShift == 5
MdtsShift == 3

PageSize == 2 ^ PageShift
max_transfer_size == (2 ^ MdtsShift) * PageSize
PrpEntriesPerPage == PageSize \div 8

\* Virtual-to-physical translation: page frames are neither contiguous nor
\* ordered like the virtual pages.
FrameOf(vpn) == IF vpn % 2 = 0 THEN vpn + 1 ELSE vpn - 1
Phys(virt) == FrameOf(virt \div PageSize) * PageSize + (virt % PageSize)

\* Physical address of the k-th PRP list page the allocator hands out.
PrpListAddr(k) == (1000 + k) * PageSize

RECURSIVE PrpBuildLists(_, _)
\* The list pages for the data pages pp, the first one being page k: a list
\* is chained when its pages exceed (P/8 - 1) pages.
PrpBuildLists(pp, k) ==
    IF Len(pp) > PrpEntriesPerPage - 1
    THEN <<[addr |-> PrpListAddr(k),
            entries |-> SubSeq(pp, 1, PrpEntriesPerPage - 1)
                          \o <<PrpListAddr(k + 1)>>]>>
         \o PrpBuildLists(SubSeq(pp, PrpEntriesPerPage, Len(pp)), k + 1)
    ELSE <<[addr |-> PrpListAddr(k), entries |-> pp]>>

\* create(allocator, virt, length): [ok, err, prp1, prp2, lists]
PrpCreate(virt, length) ==
    LET fpo  == virt % PageSize
        fpb  == PageSize - fpo
        next == virt - fpo + PageSize
        rest == length - fpb
        n    == (rest + PageSize - 1) \div PageSize
        none == [ok |-> FALSE, err |-> "", prp1 |-> 0, prp2 |-> 0, lists |-> <<>>]
    IN  IF virt % 4 # 0 THEN [none EXCEPT !.err = "NotAlignedToDword"]
        ELSE IF length > max_transfer_size
        THEN [none EXCEPT !.err = "IoSizeExceedsMdts"]
        ELSE IF length <= fpb
        THEN [none EXCEPT !.ok = TRUE, !.prp1 = Phys(virt)]
        ELSE IF rest <= PageSize
        THEN [none EXCEPT !.ok = TRUE, !.prp1 = Phys(virt), !.prp2 = Phys(next)]
        ELSE [none EXCEPT !.ok = TRUE, !.prp1 = Phys(virt),
                          !.prp2 = PrpListAddr(0),
                          !.lists = PrpBuildLists(
                              [i \in 1..n |-> Phys(next + (i - 1) * PageSize)], 0)]

\* The data pointers with PRP1 and PRP2 exchanged.
IoDataPtrSwapped(plan) == <<plan.prp2, plan.prp1>>

\* data_ptr of the command: [prp.0 as u64, prp.1 as u64]
IoDataPtr(plan) == <<plan.prp1, plan.prp2>>

\* A call of do_io with a buffer at virt of the given length.
InitPRP ==
    /\ DevOff
    /\ sq = NoQueue
    /\ cq = NoQueue
    /\ ctrl = NoCtrl
    /\ \E virt \in 0..(2 * PageSize - 1), bytes \in 1..(max_transfer_size + 1) :
         out = [op |-> "call_do_io", virt |-> virt, len |-> bytes]
    /\ hist = NoHist

\* do_io(lba, address, bytes, write) up to the command it builds.
PrpDoIo ==
    /\ out.op = "call_do_io"
    /\ LET virt  == out.virt
           bytes == out.len
           plan  == PrpCreate(virt, bytes)
       IN  out' = IF bytes > max_transfer_size
                  THEN [op |-> "do_io", virt |-> virt, len |-> bytes, ok |-> FALSE,
                        err |-> "IoSizeExceedsMdts", dptr |-> <<0, 0>>, lists |-> <<>>]
                  ELSE [op |-> "do_io", virt |-> virt, len |-> bytes, ok |-> plan.ok,
                        err |-> plan.err,
                        dptr |-> IF plan.ok THEN IoDataPtr(plan) ELSE <<0, 0>>,
                        lists |-> plan.lists]
    /\ UNCHANGED <<sq, cq, ctrl, hist, devVars>>

NextPRP == PrpDoIo

SpecPRP == InitPRP /\ [][NextPRP]_vars

\* The pages the buffer (virt, length) touches, in ascending order.
BufferPages(virt, length) ==
    LET first == virt \div PageSize
        last  == (virt + length - 1) \div PageSize
    IN  [i \in 1..(last - first + 1) |-> FrameOf(first + i - 1) * PageSize]

RECURSIVE PrpWalk(_, _)
\* The data pages listed from the list page at addr on: the last entry of a
\* full list page that points to another list page of the plan is followed.
PrpWalk(lists, addr) ==
    LET here == { i \in 1..Len(lists) : lists[i].addr = addr } IN
    IF here = {} THEN <<>>
    ELSE LET e == lists[CHOOSE i \in here : TRUE].entries
             chained == /\ Len(e) = PrpEntriesPerPage
                        /\ \E i \in 1..Len(lists) : lists[i].addr = e[Len(e)]
         IN  IF chained
             THEN SubSeq(e, 1, Len(e) - 1) \o PrpWalk(lists, e[Len(e)])
             ELSE e

\* The pages a command with data pointers dptr and the given length names.
PrpPages(dptr, length, lists) ==
    LET fpb == PageSize - (dptr[1] % PageSize) IN
    <<dptr[1] - (dptr[1] % PageSize)>>
    \o (IF length <= fpb THEN <<>>
        ELSE IF length - fpb <= PageSize THEN <<dptr[2]>>
        ELSE PrpWalk(lists, dptr[2]))

(***************************************************************************)
(* C9  PRP correctness: for every (virt, length) with virt dword-aligned   *)
(* and 1 <= length <= MDTS the command is built, PRP1 is the physical      *)
(* address of virt, and PRP1, PRP2 or the list reachable from PRP2 name    *)
(* every page the buffer touches, in ascending order, each once.           *)
(***************************************************************************)
PrpCorrect ==
    out.op = "do_io" =>
        /\ (out.virt % 4 = 0 /\ out.len <= max_transfer_size) => out.ok
        /\ out.ok =>
            /\ out.dptr[1] = Phys(out.virt)
            /\ PrpPages(out.dptr, out.len, out.lists)
                 = BufferPages(out.virt, out.len)
            /\ \A i \in 1..Len(out.lists) :
                 Len(out.lists[i].entries) <= PrpEntriesPerPage

\* A transfer of the full MDTS from an unaligned address: chained PRP lists.
PrpWitness ==
    /\ out.op = "do_io"
    /\ out.ok
    /\ out.len = max_transfer_size
    /\ out.virt % PageSize # 0
    /\ Len(out.lists) >= 2

(***************************************************************************)
(* SpecST: what the callers make of the status field of a completion       *)
(* (do_io and the other namespace operations, compare, exec_admin).  The   *)
(* field is 16 bits: bit 0 the phase tag, bits 1-8 the status code (SC),   *)
(* bits 9-11 the status code type (SCT), bit 15 do-not-retry.              *)
(***************************************************************************)
\* Status codes tried: success, generic errors, the media errors 0x81
\* (unrecovered read) and 0x85 (compare failure), and the largest one.
ScSamples == {0, 1, 2, 129, 133, 255}
\* Status code types tried: generic, command specific, media, path, vendor.
SctSamples == {0, 1, 2, 3, 7}

\* Completion::status with the given fields.
StatusWord(sct, sc, dnr, phase) == 32768 * dnr + 512 * sct + 2 * sc + phase

\* (entry.status >> 1) & 0xff
StatusCode(status) == (status \div 2) % 256

\* The status check of do_io, trim, write_zeroes, verify, copy and
\* exec_admin.
StatusResult(status) ==
    IF StatusCode(status) # 0 THEN "CommandFailed" ELSE "Ok"

\* The status check of compare: Ok(true), Ok(false) or the error.
CompareResult(status) ==
    IF StatusCode(status) = 0 THEN "Ok"
    ELSE IF StatusCode(status) = 133 THEN "OkFalse"
    ELSE "CommandFailed"

\* The result of operation op for a completion with the given status.
OpResult(op, status) ==
    IF op = "compare" THEN CompareResult(status) ELSE StatusResult(status)

\* The callers of the status checks.
StatusCallers == {"do_io", "compare", "exec_admin"}

InitST ==
    /\ DevOff
    /\ sq = NoQueue
    /\ cq = NoQueue
    /\ ctrl = NoCtrl
    /\ \E sct \in SctSamples, sc \in ScSamples, dnr \in 0..1, ph \in 0..1 :
         out = [op |-> "call_status", sct |-> sct, sc |-> sc,
                status |-> StatusWord(sct, sc, dnr, ph)]
    /\ hist = NoHist

\* A caller checks the status of the completion it popped.
StCheck ==
    /\ out.op = "call_status"
    /\ \E c \in StatusCallers :
         out' = [op |-> "status", caller |-> c, sct |-> out.sct, sc |-> out.sc,
                 status |-> out.status, res |-> OpResult(c, out.status)]
    /\ UNCHANGED <<sq, cq, ctrl, hist, devVars>>

NextST == StCheck

SpecST == InitST /\ [][NextST]_vars

(***************************************************************************)
(* C19  Status decoding: a completion is a success if and only if          *)
(* (SCT, SC) = (0, 0); every other completion, a path error (SCT = 3) or   *)
(* a nonzero SCT with SC = 0 among them, surfaces to the caller of the     *)
(* namespace or admin operation as CommandFailed.                          *)
(***************************************************************************)
StatusDecoding ==
    (out.op = "status" /\ out.caller \in {"do_io", "exec_admin"}) =>
        /\ out.res = "Ok" <=> (out.sct = 0 /\ out.sc = 0)
        /\ out.res # "Ok" => out.res = "CommandFailed"

(***************************************************************************)
(* C20  Result of compare: true for a successful completion, false for     *)
(* status code 0x85 (Compare Failure), CommandFailed for every other       *)
(* completion.                                                             *)
(***************************************************************************)
CompareMapping ==
    (out.op = "status" /\ out.caller = "compare") =>
        out.res = IF out.sct = 0 /\ out.sc = 0 THEN "Ok"
                  ELSE IF out.sc = 133 THEN "OkFalse"
                  ELSE "CommandFailed"

(***************************************************************************)
(* SpecNS: the command a namespace operation builds (read, write, compare, *)
(* write_zeroes, verify and trim, device.rs) from its arguments, with the  *)
(* widths of the source: the block count handed to the command is a u16,   *)
(* and `x - 1` on a u16 that is 0 panics in a build with overflow checks   *)
(* and wraps in one without.  A 64-bit LBA is held as its two dwords.      *)
(* PrpManager::create is not among the source files; PrpError follows the  *)
(* constraints of section 4.6 of the specification.                        *)
(***************************************************************************)
\* Namespace::block_size of the namespaces tried.
BlockSizes == {512, 4096}

\* max_transfer_size of the controllers tried: MDTS 0, 5 and 14 with a
\* minimum page size of 4 KiB.
TransferLimits == {4096, 131072, 67108864}

\* Buffer lengths tried for a namespace with blocks of bs bytes on a
\* controller that transfers mts bytes at most.
LenSamples(bs, mts) ==
    {bs, bs + 1, mts, mts + 1, mts + bs, 65536 * bs, 65537 * bs}

\* Block counts tried for write_zeroes, verify and trim.
CountSamples == {1, 8, 65535}

\* LBAs tried.
LbaSamples == {[lo |-> 1000, hi |-> 0], [lo |-> 7, hi |-> 1]}

\* What lies behind the 12 bytes of `range_data` on the stack of trim.
StackSamples == {0, 4660}

DataFns == {"read", "write", "compare"}
CountFns == {"write_zeroes", "verify", "trim"}

\* The calls made.
NsBuildInputs ==
    { [fn |-> fn, bs |-> bs, mts |-> mts, virt |-> virt, len |-> len, n |-> 0,
       lba |-> lba, flag |-> flag] :
        fn \in DataFns, bs \in BlockSizes, mts \in TransferLimits,
        virt \in {0, 2}, len \in UNION {LenSamples(b, m) : b \in BlockSizes,
                                                         m \in TransferLimits},
        lba \in LbaSamples, flag \in BOOLEAN }
    \cup
    { [fn |-> fn, bs |-> bs, mts |-> mts, virt |-> 0, len |-> 0, n |-> n,
       lba |-> lba, flag |-> flag] :
        fn \in CountFns, bs \in BlockSizes, mts \in TransferLimits,
        n \in CountSamples, lba \in LbaSamples, flag \in BOOLEAN }

\* The constraints of the PRP builder: the error, or "".
PrpError(virt, length, mts) ==
    IF virt % 4 # 0 THEN "NotAlignedToDword"
    ELSE IF length > mts THEN "IoSizeExceedsMdts"
    ELSE ""

\* `x as u16 - 1`: [panic, val]
U16Pred(x) ==
    IF x % U16 = 0
    THEN {[panic |-> TRUE, val |-> 0], [panic |-> FALSE, val |-> U16 - 1]}
    ELSE {[panic |-> FALSE, val |-> (x % U16) - 1]}

\* cmd_11 of Command::dataset_management
DsmCdw11(ad, idw, idr) ==
    (IF ad THEN 4 ELSE 0) + (IF idw THEN 2 ELSE 0) + (IF idr THEN 1 ELSE 0)

NoNsCmd == [opc |-> "", cdw10 |-> 0, cdw11 |-> 0, cdw12 |-> 0]

\* What a namespace operation called with `in` may come to before it
\* pushes: an error returned, a panic, or the command built, with the
\* dwords the controller reads at the data pointer of a trim.
NsBuild(in) ==
    LET data   == in.fn \in DataFns
        entry  == IF data /\ in.len % in.bs # 0 THEN "InvalidBufferSize"
                  ELSE IF in.flag THEN "DeviceShuttingDown"
                  ELSE IF in.fn \in {"read", "write"} /\ in.len > in.mts
                  THEN "IoSizeExceedsMdts"
                  ELSE IF data THEN PrpError(in.virt, in.len, in.mts)
                  ELSE ""
        blocks == IF data THEN in.len \div in.bs ELSE in.n
    IN  IF entry # "" THEN {[res |-> entry, cmd |-> NoNsCmd, desc |-> <<>>]}
        ELSE IF in.fn = "trim"
        THEN { [res |-> "Ok",
                cmd |-> [opc |-> "dataset_management", cdw10 |-> 0,
                         cdw11 |-> DsmCdw11(TRUE, FALSE, FALSE), cdw12 |-> 0],
                desc |-> <<in.lba.lo, in.lba.hi, in.n, pad>>] :
               pad \in StackSamples }
        ELSE { IF c.panic THEN [res |-> "panic", cmd |-> NoNsCmd, desc |-> <<>>]
               ELSE [res |-> "Ok",
                     cmd |-> [opc |-> in.fn, cdw10 |-> in.lba.lo,
                              cdw11 |-> in.lba.hi, cdw12 |-> c.val],
                     desc |-> <<>>] :
               c \in U16Pred(blocks) }

InitNS ==
    /\ DevOff
    /\ sq = NoQueue
    /\ cq = NoQueue
    /\ ctrl = NoCtrl
    /\ \E in \in NsBuildInputs : out = [op |-> "call_ns", in |-> in]
    /\ hist = NoHist

\* The operation runs up to the push of its command.
NsBuildStep ==
    /\ out.op = "call_ns"
    /\ \E r \in NsBuild(out.in) :
         out' = [op |-> "ns_built", in |-> out.in, res |-> r.res,
                 cmd |-> r.cmd, desc |-> r.desc]
    /\ UNCHANGED <<sq, cq, ctrl, hist, devVars>>

NextNS == NsBuildStep

SpecNS == InitNS /\ [][NextNS]_vars

(***************************************************************************)
(* C21  MDTS boundary: a read or write of exactly max_transfer_bytes is    *)
(* accepted and submitted, one of a byte more fails with                   *)
(* IoSizeExceedsMdts, and no read, write or compare submits a transfer     *)
(* above max_transfer_bytes.                                               *)
(***************************************************************************)
MdtsBoundary ==
    (out.op = "ns_built" /\ out.in.fn \in DataFns) =>
        /\ (/\ out.in.fn \in {"read", "write"}
            /\ ~out.in.flag
            /\ out.in.virt % 4 = 0) =>
               /\ out.in.len = out.in.mts => out.res = "Ok"
               /\ out.in.len = out.in.mts + 1 => out.res = "IoSizeExceedsMdts"
        /\ out.res = "Ok" => out.in.len <= out.in.mts

(***************************************************************************)
(* C23  Block count: a read, write or compare of blocks >= 1 blocks that   *)
(* is accepted is submitted with cdw12 = blocks - 1, blocks being the      *)
(* buffer length over the block size, and write_zeroes and verify of       *)
(* n >= 1 blocks with cdw12 = n - 1; none of them panics.                  *)
(***************************************************************************)
BlockCountEncoding ==
    (/\ out.op = "ns_built"
     /\ out.in.fn # "trim"
     /\ out.res \in {"Ok", "panic"}) =>
        /\ out.res = "Ok"
        /\ out.cmd.cdw12 = (IF out.in.fn \in DataFns
                            THEN out.in.len \div out.in.bs ELSE out.in.n) - 1

(***************************************************************************)
(* C24  TRIM: trim(lba, blocks) submits one Dataset Management command     *)
(* with AD = 1, IDW = IDR = 0 and nr = 0, whose data pointer names the     *)
(* 16 bytes [attr:u32 = 0, length:u32 = blocks, lba:u64].                  *)
(***************************************************************************)
TrimEncoding ==
    (out.op = "ns_built" /\ out.in.fn = "trim" /\ out.res = "Ok") =>
        /\ out.cmd.opc = "dataset_management"
        /\ out.cmd.cdw10 = 0
        /\ out.cmd.cdw11 = 4
        /\ out.desc = <<0, out.in.n, out.in.lba.lo, out.in.lba.hi>>

(***************************************************************************)
(* Spec: the device (device.rs) from the state a successful init leaves    *)
(* it in.  Threads hold the device or a namespace of it and call           *)
(* namespace operations, set_ioq_count and, once, drop; the controller     *)
(* fetches the commands the doorbells announce and posts one completion    *)
(* for each.  A step of a thread runs from one access to shared state that *)
(* can block, or can be observed by others, to the next.  The rings come   *)
(* zeroed from the allocator, and CAP.DSTRD is 0.                          *)
(***************************************************************************)
\* CAP.MQES + 1 of the controller.
MaxQueueEntries == 3
\* Default size of the I/O queues (256 in the source).
IO_QUEUE_SIZE == 2
\* min(max_io_sq, max_io_cq) as negotiated by Set Features.
HwLimit == 2
\* next_queue_id does not grow beyond MaxQid.
MaxQid == 3
\* Polls of the drain loop (10000 in the source).
MAX_WAIT == 1
\* Commands that leave outstanding incremented, at most.
MaxLeak == 1

MIN_ADMIN_QUEUE_SIZE == 2

\* Threads that hold a namespace, and threads that hold the device.
NsThreads == {"n1", "n2"}
DevThreads == {"d1", "d2"}
Threads == NsThreads \cup DevThreads
NoThread == ""

\* The threads of a run.
Populations == {{"n1", "d1"}, {"d1", "d2"}, {"n1", "n2"}}

\* Namespace::block_size of the namespace the threads hold.
block_size == PageSize

\* The namespace init finds on the controller of the device specification.
FoundNamespaces == <<[id |-> 1, block_size |-> block_size, lba_size |-> 0]>>

\* namespaces.read().keys(): the ids, ascending.
Namespaces == [i \in 1..Len(namespaces) |-> namespaces[i].id]

\* usize::MAX, scaled to 31 bits: above every value a counter takes.
USIZE_MAX == 2 ^ 30 + (2 ^ 30 - 1)

Min(a, b) == IF a < b THEN a ELSE b
Max(a, b) == IF a > b THEN a ELSE b

RECURSIVE SumFn(_, _)
\* Sum of f over the finite set S.
SumFn(f, S) ==
    IF S = {} THEN 0
    ELSE LET x == CHOOSE y \in S : TRUE IN f[x] + SumFn(f, S \ {x})

Qids == 1..MaxQid

Cmd(opc, cid, arg) == [opc |-> opc, cid |-> cid, arg |-> arg]

admin_queue_size == Max(MaxQueueEntries, MIN_ADMIN_QUEUE_SIZE)
queue_size == Max(Min(IO_QUEUE_SIZE, MaxQueueEntries), 2)

ZeroMem(len) == [i \in 0..(len - 1) |-> Completion(0, 0, 0)]

\* An IoQueuePair behind its Arc<Mutex<..>>; lock is the holder of the mutex.
NoPair ==
    [qid |-> 0, sq |-> NoQueue, cq |-> NoQueue, outstanding |-> 0,
     shutdown |-> FALSE, lock |-> NoThread]

NewPair(qid) ==
    [qid |-> qid, sq |-> SubQueueNew(queue_size),
     cq |-> CompQueueNew(queue_size, ZeroMem(queue_size)),
     outstanding |-> 0, shutdown |-> FALSE, lock |-> NoThread]

(***************************************************************************)
(* The controller.                                                         *)
(***************************************************************************)
HwNoQueue ==
    [cq |-> FALSE, sq |-> FALSE, sqHead |-> 0, sqTailDb |-> 0,
     cqTail |-> 0, cqPhase |-> TRUE]

\* The controller after CC.EN was set.
HwReset ==
    [en |-> TRUE, asqHead |-> 0, asqTailDb |-> 0, acqTail |-> 0,
     acqPhase |-> TRUE, io |-> [q \in Qids |-> HwNoQueue]]

\* A controller that takes every queue id.
HwAnyQid(q) == q \in Qids

\* A controller that takes one queue id more than it reported.
HwValidQidOneMore(q) == q \in 1..(HwLimit + 1)

\* The queue ids the controller accepts: those of the queues it allocated
\* in answer to Set Features (Number of Queues).
HwValidQid(q) == q \in 1..HwLimit

\* Execution of an admin command: the queues afterwards and the status code.
HwExecAdmin(io, cmd) ==
    LET q     == cmd.arg
        valid == HwValidQid(q)
        fail  == [io |-> io, sc |-> 1]
    IN  CASE cmd.opc = "create_cq" ->
               IF valid /\ ~io[q].cq
               THEN [io |-> [io EXCEPT ![q] = [HwNoQueue EXCEPT !.cq = TRUE]],
                     sc |-> 0]
               ELSE fail
          [] cmd.opc = "create_sq" ->
               IF valid /\ io[q].cq /\ ~io[q].sq
               THEN [io |-> [io EXCEPT ![q].sq = TRUE, ![q].sqHead = 0,
                                       ![q].sqTailDb = 0],
                     sc |-> 0]
               ELSE fail
          [] cmd.opc = "delete_sq" ->
               IF valid /\ io[q].sq
               THEN [io |-> [io EXCEPT ![q].sq = FALSE], sc |-> 0]
               ELSE fail
          [] cmd.opc = "delete_cq" ->
               IF valid /\ io[q].cq /\ ~io[q].sq
               THEN [io |-> [io EXCEPT ![q] = HwNoQueue], sc |-> 0]
               ELSE fail
          [] OTHER -> [io |-> io, sc |-> 0]

\* The controller can take a command from the admin SQ and has room for its
\* completion.
HwAdminReady(h, acq) ==
    /\ h.en
    /\ h.asqHead # h.asqTailDb
    /\ (h.acqTail + 1) % acq.len # acq.head

\* A slot of an SQ that the controller has fetched is dead: neither side
\* reads it again before the host overwrites it.  The model forgets what
\* it holds.
Fetched(q, i) == [q EXCEPT !.slots[i] = ZeroCmd]

\* The controller fetches the admin command at its head, executes it and
\* posts the completion: [hw, sq, cq].
HwAdminStep(h, asq, acq) ==
    LET cmd == asq.slots[h.asqHead]
        r   == HwExecAdmin(h.io, cmd)
        nh  == (h.asqHead + 1) % asq.len
    IN  [hw |-> [h EXCEPT !.io = r.io, !.asqHead = nh,
                          !.acqTail = (h.acqTail + 1) % acq.len,
                          !.acqPhase = IF h.acqTail = acq.len - 1
                                       THEN ~h.acqPhase ELSE h.acqPhase],
         sq |-> Fetched(asq, h.asqHead),
         cq |-> [acq EXCEPT !.slots[h.acqTail] =
                    Completion(2 * r.sc + PhaseBit(h.acqPhase), nh, cmd.cid)]]

\* doorbell_helper.write(Doorbell::SubTail(qid), tail): a write to the
\* doorbell of a queue the controller does not have changes nothing.
RingSubTail(h, qid, tail) ==
    IF ~h.en THEN h
    ELSE IF qid = 0 THEN [h EXCEPT !.asqTailDb = tail]
    ELSE IF h.io[qid].sq THEN [h EXCEPT !.io[qid].sqTailDb = tail]
    ELSE h

(***************************************************************************)
(* init: the admin commands it executes, one at a time, on fresh rings.    *)
(***************************************************************************)
InitAdminCommands ==
    <<"identify", "set_features", "create_cq", "create_sq",
      "identify", "identify">>

RECURSIVE InitExec(_, _)
\* exec_admin of the commands cmds in turn: [sq, cq, hw].
InitExec(st, cmds) ==
    IF cmds = <<>> THEN st
    ELSE LET opc == Head(cmds)
             arg == IF opc \in {"create_cq", "create_sq"} THEN 1 ELSE 0
             p   == TryPush(st.sq, Cmd(opc, st.sq.tail, arg))
             c   == HwAdminStep(RingSubTail(st.hw, 0, p.tail), p.sq, st.cq)
             r   == TryPop(c.cq)
         IN  InitExec([sq |-> SetHead(c.sq, r.entry.sq_head), cq |-> r.cq,
                       hw |-> c.hw], Tail(cmds))

AfterInit ==
    InitExec([sq |-> SubQueueNew(admin_queue_size),
              cq |-> CompQueueNew(admin_queue_size, ZeroMem(admin_queue_size)),
              hw |-> HwReset], InitAdminCommands)

\* Local variables of a thread outside a call.
NoLocal ==
    [op |-> "", virt |-> 0, bytes |-> 0, target |-> 0, q |-> 0, i |-> 0,
     j |-> 0, acc |-> <<>>, vict |-> <<>>, min |-> 0, best |-> 0, n |-> 0,
     step |-> 0, cmd |-> ZeroCmd, res |-> ""]

Init ==
    /\ sq = NoQueue
    /\ cq = NoQueue
    /\ ctrl = NoCtrl
    /\ out = NoOut
    /\ hist = NoHist
    /\ shutting_down = FALSE
    /\ next_queue_id = 2
    /\ queue_selector = 0
    /\ ioq = <<1>>
    /\ ioq_lock = NoThread
    /\ pairs = [q \in Qids |-> IF q = 1 THEN NewPair(1) ELSE NoPair]
    /\ admin_sq = AfterInit.sq
    /\ admin_cq = AfterInit.cq
    /\ admin_lock = NoThread
    /\ hw = AfterInit.hw
    /\ namespaces = FoundNamespaces
    /\ \E P \in Populations :
         pc = [t \in Threads |-> IF t \in P THEN "idle" ELSE "absent"]
    /\ loc = [t \in Threads |-> NoLocal]
    /\ ghost = [io_inflight |-> 0,
                admin_done |-> [q \in Qids |->
                    IF q = 1 THEN {"create_cq", "create_sq"} ELSE {}],
                flushed |-> {}, failed |-> {}, init |-> "Ok", issued |-> <<>>,
                nslist |-> <<>>]

\* The call of thread t, made with the arguments in l, returns res.
DoneOf(t, res, l) ==
    /\ pc' = [pc EXCEPT ![t] = "done"]
    /\ loc' = [loc EXCEPT ![t] = [NoLocal EXCEPT !.res = res, !.op = l.op,
                                    !.virt = l.virt, !.bytes = l.bytes,
                                    !.target = l.target]]

\* The call of thread t returns res.
Done(t, res) == DoneOf(t, res, loc[t])

\* Thread t goes on at position p with locals l.
Goto(t, p, l) ==
    /\ pc' = [pc EXCEPT ![t] = p]
    /\ loc' = [loc EXCEPT ![t] = l]

\* The caller takes the result.
Return(t) ==
    /\ pc[t] = "done"
    /\ Goto(t, "idle", NoLocal)
    /\ UNCHANGED <<unitVars, namespaces, shutting_down, next_queue_id, queue_selector, ioq,
                   ioq_lock, pairs, admin_sq, admin_cq, admin_lock, hw, ghost>>

\* The counters left incremented by calls that have returned.
SumOutstanding == SumFn([q \in Qids |-> pairs[q].outstanding], Qids)

(***************************************************************************)
(* The controller's steps.                                                 *)
(***************************************************************************)
CtrlAdmin ==
    /\ HwAdminReady(hw, admin_cq)
    /\ LET r == HwAdminStep(hw, admin_sq, admin_cq) IN
          /\ hw' = r.hw
          /\ admin_sq' = r.sq
          /\ admin_cq' = r.cq
    /\ UNCHANGED <<unitVars, namespaces, shutting_down, next_queue_id, queue_selector, ioq,
                   ioq_lock, pairs, admin_lock, pc, loc, ghost>>

\* The controller fetches the command at the head of I/O SQ q, executes it
\* and posts a successful completion to CQ q.  Commands in an SQ that has
\* been deleted are not completed.
CtrlIo(q) ==
    LET h == hw.io[q]
        p == pairs[q]
    IN  /\ hw.en
        /\ h.sq
        /\ h.sqHead # h.sqTailDb
        /\ (h.cqTail + 1) % p.cq.len # p.cq.head
        /\ LET cmd == p.sq.slots[h.sqHead]
               nh  == (h.sqHead + 1) % p.sq.len
           IN  /\ pairs' = [pairs EXCEPT ![q].sq = Fetched(p.sq, h.sqHead),
                                         ![q].cq.slots[h.cqTail] =
                                Completion(PhaseBit(h.cqPhase), nh, cmd.cid)]
               /\ hw' = [hw EXCEPT
                           !.io[q].sqHead = nh,
                           !.io[q].cqTail = (h.cqTail + 1) % p.cq.len,
                           !.io[q].cqPhase = IF h.cqTail = p.cq.len - 1
                                             THEN ~h.cqPhase ELSE h.cqPhase]
        /\ UNCHANGED <<unitVars, namespaces, shutting_down, next_queue_id, queue_selector,
                       ioq, ioq_lock, admin_sq, admin_cq, admin_lock, pc, loc,
                       ghost>>

(***************************************************************************)
(* Namespace operations.  read and write are do_io; compare builds a PRP   *)
(* plan as well; trim, write_zeroes, verify and copy carry no caller       *)
(* buffer and differ in the command only ("trim" stands for the four).     *)
(***************************************************************************)
NsOps == {"write", "compare", "trim"}

HasPrp(op) == op \in {"write", "compare"}

\* The calls made: of one block; of a length that is no multiple of the
\* block size; of a transfer above MDTS; with a buffer that is not dword
\* aligned.
NsInputs ==
    { [op |-> op, virt |-> 0, bytes |-> b] :
        op \in NsOps,
        b \in {block_size, block_size + 4, max_transfer_size + block_size} }
    \cup {[op |-> "write", virt |-> 2, bytes |-> block_size]}

PrpFails(in) == HasPrp(in.op) /\ ~PrpCreate(in.virt, in.bytes).ok

\* The checks at the entry of a namespace operation with every buffer
\* length taken.
EntryErrorNoSize(in, flag) ==
    IF flag THEN "DeviceShuttingDown"
    ELSE IF in.op = "write" /\ in.bytes > max_transfer_size
    THEN "IoSizeExceedsMdts"
    ELSE ""

\* The checks at the entry of a namespace operation with the flag ignored.
EntryErrorNoFlag(in, flag) ==
    IF HasPrp(in.op) /\ in.bytes % block_size # 0 THEN "InvalidBufferSize"
    ELSE IF in.op = "write" /\ in.bytes > max_transfer_size
    THEN "IoSizeExceedsMdts"
    ELSE ""

\* The checks at the entry of a namespace operation, flag being the value
\* read from shutting_down: the error returned, or "" to go on.
EntryError(in, flag) ==
    IF HasPrp(in.op) /\ in.bytes % block_size # 0 THEN "InvalidBufferSize"
    ELSE IF flag THEN "DeviceShuttingDown"
    ELSE IF in.op = "write" /\ in.bytes > max_transfer_size
    THEN "IoSizeExceedsMdts"
    ELSE ""

\* read / write / compare / trim ... up to select_queue, the arguments of
\* the call being among Inputs.
NsCallFrom(t, Inputs) ==
    /\ pc[t] = "idle"
    /\ \E in \in Inputs :
         LET l == [NoLocal EXCEPT !.op = in.op, !.virt = in.virt,
                                  !.bytes = in.bytes]
             e == EntryError(in, shutting_down)
         IN  /\ ~HasPrp(in.op) => (in.virt = 0 /\ in.bytes = block_size)
             /\ PrpFails(in) => SumOutstanding < MaxLeak
             /\ IF e # "" THEN DoneOf(t, e, l) ELSE Goto(t, "select", l)
    /\ UNCHANGED <<unitVars, namespaces, shutting_down, next_queue_id, queue_selector, ioq,
                   ioq_lock, pairs, admin_sq, admin_cq, admin_lock, hw, ghost>>

NsCall(t) == NsCallFrom(t, NsInputs)

\* select_queue: the pool lock is taken and held to the end.
SelLock(t) ==
    /\ pc[t] = "select"
    /\ ioq_lock = NoThread
    /\ IF ioq = <<>>
       THEN Done(t, "NoActiveQueues") /\ UNCHANGED ioq_lock
       ELSE /\ ioq_lock' = t
            /\ Goto(t, "sel_filter", [loc[t] EXCEPT !.i = 1, !.acc = <<>>])
    /\ UNCHANGED <<unitVars, namespaces, shutting_down, next_queue_id, queue_selector, ioq,
                   pairs, admin_sq, admin_cq, admin_lock, hw, ghost>>

\* select_queue: the filter locks one queue of the pool and reads its
\* shutdown flag; after the last one the result may be known.
SelFilter(t) ==
    /\ pc[t] = "sel_filter"
    /\ LET l   == loc[t]
           q   == ioq[l.i]
           act == IF pairs[q].shutdown THEN l.acc ELSE Append(l.acc, q)
       IN  /\ pairs[q].lock = NoThread
           /\ IF l.i < Len(ioq)
              THEN Goto(t, "sel_filter", [l EXCEPT !.i = l.i + 1, !.acc = act])
                   /\ UNCHANGED ioq_lock
              ELSE /\ ioq_lock' = IF Len(act) <= 1 THEN NoThread ELSE t
                   /\ IF act = <<>> THEN Done(t, "NoActiveQueues")
                      ELSE IF Len(act) = 1
                      THEN Goto(t, "ns_lock", [l EXCEPT !.q = act[1], !.i = 0,
                                                  !.acc = <<>>])
                      ELSE Goto(t, "sel_scan", [l EXCEPT !.i = 1, !.acc = act,
                                                   !.min = USIZE_MAX, !.best = 0])
    /\ UNCHANGED <<unitVars, namespaces, shutting_down, next_queue_id, queue_selector, ioq,
                   pairs, admin_sq, admin_cq, admin_lock, hw, ghost>>

\* select_queue: the scan locks one active queue and reads its outstanding
\* counter; after the last one the least loaded queue is returned, or the
\* round-robin choice if the scan selected none.
SelScan(t) ==
    /\ pc[t] = "sel_scan"
    /\ LET l    == loc[t]
           q    == l.acc[l.i]
           o    == pairs[q].outstanding
           min  == IF o < l.min THEN o ELSE l.min
           best == IF o < l.min THEN q ELSE l.best
       IN  /\ pairs[q].lock = NoThread
           /\ IF l.i < Len(l.acc)
              THEN /\ Goto(t, "sel_scan", [l EXCEPT !.i = l.i + 1, !.min = min,
                                              !.best = best])
                   /\ UNCHANGED <<ioq_lock, queue_selector>>
              ELSE /\ ioq_lock' = NoThread
                   /\ queue_selector' = IF best = 0 THEN queue_selector + 1
                                        ELSE queue_selector
                   /\ Goto(t, "ns_lock",
                           [l EXCEPT !.q = IF best # 0 THEN best
                                           ELSE l.acc[(queue_selector % Len(l.acc)) + 1],
                                     !.i = 0, !.acc = <<>>, !.min = 0, !.best = 0])
    /\ UNCHANGED <<unitVars, namespaces, shutting_down, next_queue_id, ioq, pairs,
                   admin_sq, admin_cq, admin_lock, hw, ghost>>

\* A queue guard dropped as soon as the command is pushed.
GuardDropped(t) == NoThread

\* let mut queue = queue_arc.lock(): the guard lives to the end of the
\* operation, so the queue stays locked by t after the push.
GuardHeld(t) == t

\* queue_arc.lock(), outstanding.fetch_add(1), the PRP plan, and the command
\* pushed with the tail doorbell written.  A failed plan returns with the
\* counter incremented; push spins while the SQ is full.
NsSubmit(t) ==
    /\ pc[t] = "ns_lock"
    /\ LET l == loc[t]
           q == l.q
           p == pairs[q]
           r == TryPush(p.sq, Cmd(l.op, p.sq.tail, Namespaces[1]))
       IN  /\ p.lock = NoThread
           /\ IF HasPrp(l.op) /\ ~PrpCreate(l.virt, l.bytes).ok
              THEN /\ pairs' = [pairs EXCEPT ![q].outstanding = @ + 1]
                   /\ Done(t, PrpCreate(l.virt, l.bytes).err)
                   /\ UNCHANGED <<hw, ghost>>
              ELSE /\ r.ok
                   /\ pairs' = [pairs EXCEPT ![q].outstanding = @ + 1,
                                             ![q].lock = GuardHeld(t),
                                             ![q].sq = r.sq]
                   /\ hw' = RingSubTail(hw, q, r.tail)
                   /\ ghost' = [ghost EXCEPT !.io_inflight = @ + 1]
                   /\ Goto(t, "ns_wait", l)
    /\ UNCHANGED <<unitVars, namespaces, shutting_down, next_queue_id, queue_selector, ioq,
                   ioq_lock, admin_sq, admin_cq, admin_lock>>

\* cq.pop(), the head doorbell, set_head, outstanding.fetch_sub(1), the
\* queue lock released, and the status decoded.
NsComplete(t) ==
    /\ pc[t] = "ns_wait"
    /\ LET l  == loc[t]
           q  == l.q
           p  == pairs[q]
           r  == TryPop(p.cq)
       IN  /\ r.ok
           /\ pairs' = [pairs EXCEPT ![q].cq = r.cq,
                                     ![q].sq = SetHead(p.sq, r.entry.sq_head),
                                     ![q].outstanding = @ - 1,
                                     ![q].lock = NoThread]
           /\ ghost' = [ghost EXCEPT !.io_inflight = @ - 1]
           /\ Done(t, OpResult(l.op, r.entry.status))
    /\ UNCHANGED <<unitVars, namespaces, shutting_down, next_queue_id, queue_selector, ioq,
                   ioq_lock, admin_sq, admin_cq, admin_lock, hw>>

(***************************************************************************)
(* set_ioq_count, add_ioq_internal and exec_admin.                         *)
(***************************************************************************)
\* The admin lock with no regard to its holder.
AdminLockIgnored(holder) == TRUE

\* admin_lock.lock() succeeds.
AdminLockFree(holder) == holder = NoThread

\* add_ioq_internal with the two commands exchanged.
AddIoqCommandsSwapped == <<"create_sq", "create_cq">>

\* The admin commands of add_ioq_internal, in the order they are executed.
AddIoqCommands == <<"create_cq", "create_sq">>

\* The admin commands of rm_ioq_internal for one queue.
RmIoqCommands == <<"delete_sq", "delete_cq">>

\* destroy_ioq with the two commands exchanged.
DestroyIoqCommandsSwapped == <<"delete_cq", "delete_sq">>

\* The admin commands of destroy_ioq for one queue.
DestroyIoqCommands == <<"delete_sq", "delete_cq">>

AdminCommands(op) ==
    CASE op = "add" -> AddIoqCommands
      [] op = "rm" -> RmIoqCommands
      [] OTHER -> DestroyIoqCommands

\* Queues that calls of set_ioq_count in progress have yet to allocate an id
\* for.
AddsAhead ==
    SumFn([d \in DevThreads |->
             IF loc[d].op = "add" /\ pc[d] # "done" THEN loc[d].n ELSE 0],
          DevThreads)

\* The checks of set_ioq_count against a limit that is never reached.
TargetErrorNoLimit(target) ==
    IF target = 0 THEN "InvalidQueueCount" ELSE ""

\* The checks at the entry of set_ioq_count: the error returned, or "" to
\* go on.
TargetError(target) ==
    IF target = 0 THEN "InvalidQueueCount"
    ELSE IF target > HwLimit THEN "TooManyQueues"
    ELSE ""

\* set_ioq_count(target) up to the first step of adding or removing.  No
\* call is made on a device that is being dropped.
SetIoqCount(d) ==
    /\ pc[d] = "idle"
    /\ ~shutting_down
    /\ \E target \in 0..(HwLimit + 1) :
         LET l == [NoLocal EXCEPT !.op = "set", !.target = target] IN
         IF TargetError(target) # "" THEN DoneOf(d, TargetError(target), l)
         ELSE /\ ioq_lock = NoThread
              /\ LET current == Len(ioq) IN
                 IF target > current
                 THEN /\ next_queue_id + AddsAhead + (target - current) - 1 <= MaxQid
                      /\ Goto(d, "add_begin", [l EXCEPT !.op = "add",
                                                  !.n = target - current])
                 ELSE IF target < current
                 THEN Goto(d, "rm_lock", [l EXCEPT !.op = "rm",
                                            !.n = current - target])
                 ELSE DoneOf(d, "Ok", l)
    /\ UNCHANGED <<unitVars, namespaces, shutting_down, next_queue_id, queue_selector, ioq,
                   ioq_lock, pairs, admin_sq, admin_cq, admin_lock, hw, ghost>>

\* add_ioq_internal: the queue id is allocated and the rings are created.
AddBegin(d) ==
    /\ pc[d] = "add_begin"
    /\ LET qid == next_queue_id % U16 IN
          /\ next_queue_id' = next_queue_id + 1
          /\ pairs' = [pairs EXCEPT ![qid] = NewPair(qid)]
          /\ Goto(d, "adm_prep", [loc[d] EXCEPT !.q = qid, !.step = 1,
                                     !.n = loc[d].n - 1])
    /\ UNCHANGED <<unitVars, namespaces, shutting_down, queue_selector, ioq, ioq_lock,
                   admin_sq, admin_cq, admin_lock, hw, ghost>>

\* The argument of exec_admin is built: its command id is admin_sq.tail().
AdmPrep(d) ==
    /\ pc[d] = "adm_prep"
    /\ LET l == loc[d] IN
          Goto(d, "adm_lock",
               [l EXCEPT !.cmd = Cmd(AdminCommands(l.op)[l.step],
                                     admin_sq.tail, l.q)])
    /\ UNCHANGED <<unitVars, namespaces, shutting_down, next_queue_id, queue_selector, ioq,
                   ioq_lock, pairs, admin_sq, admin_cq, admin_lock, hw, ghost>>

\* exec_admin: the admin lock is taken, the command pushed and the tail
\* doorbell of queue 0 written.  push spins while the SQ is full.
ExecAdminPush(d) ==
    /\ pc[d] = "adm_lock"
    /\ AdminLockFree(admin_lock)
    /\ LET r == TryPush(admin_sq, loc[d].cmd) IN
          /\ r.ok
          /\ admin_sq' = r.sq
          /\ hw' = RingSubTail(hw, 0, r.tail)
    /\ admin_lock' = d
    /\ Goto(d, "adm_wait", loc[d])
    /\ UNCHANGED <<unitVars, namespaces, shutting_down, next_queue_id, queue_selector, ioq,
                   ioq_lock, pairs, admin_cq, ghost>>

\* exec_admin: the completion is popped, the head doorbell written, the SQ
\* head set and the lock released; then the caller goes on: an error status
\* ends add_ioq_internal, rm_ioq_internal and destroy_ioq at once.
ExecAdminPop(d) ==
    /\ pc[d] = "adm_wait"
    /\ LET l    == loc[d]
           r    == TryPop(admin_cq)
           sc   == StatusCode(r.entry.status)
           last == l.step = Len(AdminCommands(l.op))
       IN  /\ r.ok
           /\ admin_cq' = r.cq
           /\ admin_sq' = SetHead(admin_sq, r.entry.sq_head)
           /\ admin_lock' = NoThread
           /\ ghost' = IF sc = 0
                       THEN [ghost EXCEPT !.admin_done[l.cmd.arg] = @ \cup {l.cmd.opc}]
                       ELSE [ghost EXCEPT !.failed = @ \cup {<<l.op, l.cmd.opc>>}]
           /\ pairs' = IF sc # 0 /\ l.op = "add"
                       THEN [pairs EXCEPT ![l.q] = NoPair] ELSE pairs
           /\ IF sc # 0
              THEN IF l.op = "destroy" THEN Goto(d, "drop_reset", l)
                   ELSE Done(d, "CommandFailed")
              ELSE IF ~last
              THEN Goto(d, "adm_prep", [l EXCEPT !.step = l.step + 1])
              ELSE IF l.op = "add" THEN Goto(d, "add_push", l)
              ELSE IF l.op = "rm"
              THEN IF l.i < Len(l.vict)
                   THEN Goto(d, "adm_prep", [l EXCEPT !.i = l.i + 1, !.step = 1,
                                                !.q = l.vict[l.i + 1]])
                   ELSE Goto(d, "rm_retain", l)
              ELSE IF l.i < Len(l.acc)
                   THEN Goto(d, "destroy_del", [l EXCEPT !.i = l.i + 1])
                   ELSE Goto(d, "destroy_clear", l)
    /\ UNCHANGED <<unitVars, namespaces, shutting_down, next_queue_id, queue_selector, ioq,
                   ioq_lock, hw>>

\* add_ioq_internal: the pair is pushed to the pool; set_ioq_count adds the
\* next queue or returns.
AddPush(d) ==
    /\ pc[d] = "add_push"
    /\ ioq_lock = NoThread
    /\ ioq' = Append(ioq, loc[d].q)
    /\ IF loc[d].n > 0 THEN Goto(d, "add_begin", loc[d]) ELSE Done(d, "Ok")
    /\ UNCHANGED <<unitVars, namespaces, shutting_down, next_queue_id, queue_selector,
                   ioq_lock, pairs, admin_sq, admin_cq, admin_lock, hw, ghost>>

(***************************************************************************)
(* rm_ioq_internal                                                         *)
(***************************************************************************)
\* s, sorted by the second component, with x inserted behind its equals.
SortInsert(s, x) ==
    LET k == Cardinality({i \in 1..Len(s) : s[i][2] <= x[2]}) IN
    SubSeq(s, 1, k) \o <<x>> \o SubSeq(s, k + 1, Len(s))

RECURSIVE SortByOutstanding(_)
\* sort_by_key(outstanding): a stable sort.
SortByOutstanding(s) ==
    IF s = <<>> THEN <<>>
    ELSE SortInsert(SortByOutstanding(SubSeq(s, 1, Len(s) - 1)), s[Len(s)])

Reverse(s) == [i \in 1..Len(s) |-> s[Len(s) + 1 - i]]

\* The ids of the last count queues of the sorted statistics, last first.
QueuesToRemove(stats, count) ==
    LET r == Reverse(SortByOutstanding(stats)) IN
    [i \in 1..Min(count, Len(r)) |-> r[i][1]]

\* The pool lock is taken; a request that would empty the pool fails.
RmLock(d) ==
    /\ pc[d] = "rm_lock"
    /\ ioq_lock = NoThread
    /\ IF Len(ioq) <= loc[d].n
       THEN Done(d, "LastQueueCannotBeRemoved") /\ UNCHANGED ioq_lock
       ELSE /\ ioq_lock' = d
            /\ Goto(d, "rm_stats", [loc[d] EXCEPT !.i = 1, !.acc = <<>>])
    /\ UNCHANGED <<unitVars, namespaces, shutting_down, next_queue_id, queue_selector, ioq,
                   pairs, admin_sq, admin_cq, admin_lock, hw, ghost>>

\* The pool guard kept after the block that chooses the queues to remove.
RmPoolGuardKept(d) == d

\* Holder of the pool mutex after the block that chooses the queues to
\* remove: the guard `queues` is dropped at the end of the block.
RmPoolGuard(d) == NoThread

\* One queue of the pool is locked for its id and outstanding counter;
\* after the last one the queues to remove are chosen and the pool lock is
\* released.
RmStats(d) ==
    /\ pc[d] = "rm_stats"
    /\ LET l     == loc[d]
           q     == ioq[l.i]
           stats == Append(l.acc, <<pairs[q].qid, pairs[q].outstanding>>)
       IN  /\ pairs[q].lock = NoThread
           /\ IF l.i < Len(ioq)
              THEN Goto(d, "rm_stats", [l EXCEPT !.i = l.i + 1, !.acc = stats])
                   /\ UNCHANGED ioq_lock
              ELSE /\ ioq_lock' = RmPoolGuard(d)
                   /\ Goto(d, "rm_mark",
                           [l EXCEPT !.i = 1, !.acc = <<>>, !.n = 0,
                                     !.vict = QueuesToRemove(stats, l.n)])
    /\ UNCHANGED <<unitVars, namespaces, shutting_down, next_queue_id, queue_selector, ioq,
                   pairs, admin_sq, admin_cq, admin_lock, hw, ghost>>

\* Phase 1: the shutdown flag of one queue to remove is set.
RmMark(d) ==
    /\ pc[d] = "rm_mark"
    /\ LET l == loc[d]
           q == l.vict[l.i]
       IN  /\ pairs[q].lock = NoThread
           /\ pairs' = [pairs EXCEPT ![q].shutdown = TRUE]
           /\ IF l.i < Len(l.vict)
              THEN Goto(d, "rm_mark", [l EXCEPT !.i = l.i + 1])
              ELSE Goto(d, "rm_flush", [l EXCEPT !.i = 1, !.j = 1,
                                           !.q = l.vict[1]])
    /\ UNCHANGED <<unitVars, namespaces, shutting_down, next_queue_id, queue_selector, ioq,
                   ioq_lock, admin_sq, admin_cq, admin_lock, hw, ghost>>

\* After the flushes of queue l.q: the drain loop.
RmAfterFlush(d, l) ==
    IF l.j < Len(Namespaces)
    THEN Goto(d, "rm_flush", [l EXCEPT !.j = l.j + 1])
    ELSE Goto(d, "rm_drain", [l EXCEPT !.j = 1, !.n = 0])

\* Phase 2: the queue is locked and, its shutdown flag being set, a flush
\* for one namespace is pushed and the tail doorbell written.
RmFlushPush(d) ==
    /\ pc[d] = "rm_flush"
    /\ LET l == loc[d]
           q == l.q
           p == pairs[q]
           r == TryPush(p.sq, Cmd("flush", p.sq.tail,
                                  IF l.j <= Len(Namespaces)
                                  THEN Namespaces[l.j] ELSE 0))
       IN  /\ p.lock = NoThread
           /\ IF p.shutdown /\ l.j <= Len(Namespaces)
              THEN /\ r.ok
                   /\ pairs' = [pairs EXCEPT ![q].lock = d, ![q].sq = r.sq]
                   /\ hw' = RingSubTail(hw, q, r.tail)
                   /\ ghost' = [ghost EXCEPT !.io_inflight = @ + 1]
                   /\ Goto(d, "rm_flush_wait", l)
              ELSE /\ RmAfterFlush(d, l)
                   /\ UNCHANGED <<pairs, hw, ghost>>
    /\ UNCHANGED <<unitVars, namespaces, shutting_down, next_queue_id, queue_selector, ioq,
                   ioq_lock, admin_sq, admin_cq, admin_lock>>

\* Phase 2: the completion of the flush is popped, the head doorbell
\* written, the SQ head set and the queue lock released.
RmFlushPop(d) ==
    /\ pc[d] = "rm_flush_wait"
    /\ LET l == loc[d]
           q == l.q
           r == TryPop(pairs[q].cq)
       IN  /\ r.ok
           /\ pairs' = [pairs EXCEPT ![q].cq = r.cq,
                                     ![q].sq = SetHead(pairs[q].sq, r.entry.sq_head),
                                     ![q].lock = NoThread]
           /\ ghost' = [ghost EXCEPT !.io_inflight = @ - 1]
           /\ RmAfterFlush(d, l)
    /\ UNCHANGED <<unitVars, namespaces, shutting_down, next_queue_id, queue_selector, ioq,
                   ioq_lock, admin_sq, admin_cq, admin_lock, hw>>

\* Phase 2: one poll of the outstanding counter; the loop ends when it is 0
\* or after MAX_WAIT polls, and phase 3 starts after the last queue.
RmDrain(d) ==
    /\ pc[d] = "rm_drain"
    /\ LET l == loc[d]
           q == l.q
       IN  /\ pairs[q].lock = NoThread
           /\ IF pairs[q].outstanding # 0 /\ l.n + 1 <= MAX_WAIT
              THEN Goto(d, "rm_drain", [l EXCEPT !.n = l.n + 1])
              ELSE IF l.i < Len(l.vict)
              THEN Goto(d, "rm_flush", [l EXCEPT !.i = l.i + 1, !.n = 0,
                                           !.q = l.vict[l.i + 1]])
              ELSE Goto(d, "adm_prep", [l EXCEPT !.i = 1, !.n = 0, !.step = 1,
                                           !.q = l.vict[1]])
    /\ UNCHANGED <<unitVars, namespaces, shutting_down, next_queue_id, queue_selector, ioq,
                   ioq_lock, pairs, admin_sq, admin_cq, admin_lock, hw, ghost>>

\* Phase 4: the pool lock is taken for retain.
RmRetainLock(d) ==
    /\ pc[d] = "rm_retain"
    /\ ioq_lock = NoThread
    /\ IF ioq = <<>>
       THEN Done(d, "Ok") /\ UNCHANGED ioq_lock
       ELSE /\ ioq_lock' = d
            /\ Goto(d, "rm_retain_scan", [loc[d] EXCEPT !.i = 1])
    /\ UNCHANGED <<unitVars, namespaces, shutting_down, next_queue_id, queue_selector, ioq,
                   pairs, admin_sq, admin_cq, admin_lock, hw, ghost>>

\* retain that keeps every queue.
RetainAll(pool, vict) == pool

\* queues.retain(..): the pool without the queues whose id is in vict.
Retain(pool, vict) ==
    LET Kept(x) == \A k \in 1..Len(vict) : vict[k] # pairs[x].qid
    IN  SelectSeq(pool, Kept)

\* ioq_count()
IoqCount == Len(ioq)

\* active_ioq_count()
ActiveIoqCount ==
    Cardinality({i \in 1..Len(ioq) : ~pairs[ioq[i]].shutdown})

\* Phase 4: retain locks one queue of the pool for its id; after the last
\* one the removed queues are gone from the pool and the call returns.
RmRetain(d) ==
    /\ pc[d] = "rm_retain_scan"
    /\ LET l == loc[d]
           q == ioq[l.i]
       IN  /\ pairs[q].lock = NoThread
           /\ IF l.i < Len(ioq)
              THEN /\ Goto(d, "rm_retain_scan", [l EXCEPT !.i = l.i + 1])
                   /\ UNCHANGED <<ioq, ioq_lock>>
              ELSE /\ ioq' = Retain(ioq, l.vict)
                   /\ ioq_lock' = NoThread
                   /\ Done(d, "Ok")
    /\ UNCHANGED <<unitVars, namespaces, shutting_down, next_queue_id, queue_selector,
                   pairs, admin_sq, admin_cq, admin_lock, hw, ghost>>

(***************************************************************************)
(* Drop of the device, with destroy_ioq.  drop takes the device by unique  *)
(* reference: no call of set_ioq_count is in progress; the namespaces      *)
(* handed out share the DeviceInner and stay usable.                       *)
(***************************************************************************)
\* A flush on queue q: the queue locked (and marked, in drop), the command
\* pushed and the tail doorbell written.
FlushPush(d, q, mark, after) ==
    LET p == pairs[q]
        r == TryPush(p.sq, Cmd("flush", p.sq.tail, Namespaces[loc[d].j]))
    IN  /\ p.lock = NoThread
        /\ r.ok
        /\ pairs' = [pairs EXCEPT ![q].lock = d, ![q].sq = r.sq,
                                  ![q].shutdown = IF mark THEN TRUE ELSE @]
        /\ hw' = RingSubTail(hw, q, r.tail)
        /\ ghost' = [ghost EXCEPT !.io_inflight = @ + 1]
        /\ Goto(d, after, loc[d])

\* The completion of the flush of thread d on queue q popped, the head
\* doorbell written, the SQ head set and the queue unlocked.
FlushPop(d, q) ==
    LET r == TryPop(pairs[q].cq) IN
    /\ r.ok
    /\ pairs' = [pairs EXCEPT ![q].cq = r.cq,
                              ![q].sq = SetHead(pairs[q].sq, r.entry.sq_head),
                              ![q].lock = NoThread]
    /\ ghost' = [ghost EXCEPT !.io_inflight = @ - 1,
                              !.flushed = @ \cup {<<Namespaces[loc[d].j], q>>}]

\* drop: the global flag is set.
Drop(d) ==
    /\ pc[d] = "idle"
    /\ \A e \in DevThreads : pc[e] \in {"idle", "absent"}
    /\ shutting_down' = TRUE
    /\ Goto(d, "drop_snap", [NoLocal EXCEPT !.op = "drop", !.j = 1])
    /\ UNCHANGED <<unitVars, namespaces, next_queue_id, queue_selector, ioq, ioq_lock,
                   pairs, admin_sq, admin_cq, admin_lock, hw, ghost>>

\* drop, step 2: the pool is cloned for one namespace.
DropSnap(d) ==
    /\ pc[d] = "drop_snap"
    /\ ioq_lock = NoThread
    /\ LET l == loc[d] IN
       IF l.j <= Len(Namespaces) /\ ioq # <<>>
       THEN Goto(d, "drop_flush", [l EXCEPT !.acc = ioq, !.i = 1])
       ELSE IF l.j < Len(Namespaces)
       THEN Goto(d, "drop_snap", [l EXCEPT !.j = l.j + 1])
       ELSE Goto(d, "destroy_begin", [NoLocal EXCEPT !.op = "destroy"])
    /\ UNCHANGED <<unitVars, namespaces, shutting_down, next_queue_id, queue_selector, ioq,
                   ioq_lock, pairs, admin_sq, admin_cq, admin_lock, hw, ghost>>

\* drop, step 2: one queue is locked and marked shutdown and a flush pushed.
DropFlushPush(d) ==
    /\ pc[d] = "drop_flush"
    /\ FlushPush(d, loc[d].acc[loc[d].i], TRUE, "drop_flush_wait")
    /\ UNCHANGED <<unitVars, namespaces, shutting_down, next_queue_id, queue_selector, ioq,
                   ioq_lock, admin_sq, admin_cq, admin_lock>>

\* drop, step 2: the flush completes; after the last queue and namespace
\* destroy_ioq is called.
DropFlushPop(d) ==
    /\ pc[d] = "drop_flush_wait"
    /\ LET l == loc[d] IN
          /\ FlushPop(d, l.acc[l.i])
          /\ IF l.i < Len(l.acc)
             THEN Goto(d, "drop_flush", [l EXCEPT !.i = l.i + 1])
             ELSE IF l.j < Len(Namespaces)
             THEN Goto(d, "drop_snap", [l EXCEPT !.j = l.j + 1])
             ELSE Goto(d, "destroy_begin", [NoLocal EXCEPT !.op = "destroy"])
    /\ UNCHANGED <<unitVars, namespaces, shutting_down, next_queue_id, queue_selector, ioq,
                   ioq_lock, admin_sq, admin_cq, admin_lock, hw>>

\* destroy_ioq: nothing to do for an empty pool; else the pool lock is
\* taken for phase 1.
DestroyBegin(d) ==
    /\ pc[d] = "destroy_begin"
    /\ ioq_lock = NoThread
    /\ IF ioq = <<>>
       THEN Goto(d, "destroy_clear", loc[d]) /\ UNCHANGED ioq_lock
       ELSE /\ ioq_lock' = d
            /\ Goto(d, "destroy_mark", [loc[d] EXCEPT !.i = 1])
    /\ UNCHANGED <<unitVars, namespaces, shutting_down, next_queue_id, queue_selector, ioq,
                   pairs, admin_sq, admin_cq, admin_lock, hw, ghost>>

\* destroy_ioq, phase 1: one queue of the pool is marked shutdown.
DestroyMark(d) ==
    /\ pc[d] = "destroy_mark"
    /\ LET l == loc[d]
           q == ioq[l.i]
       IN  /\ pairs[q].lock = NoThread
           /\ pairs' = [pairs EXCEPT ![q].shutdown = TRUE]
           /\ IF l.i < Len(ioq)
              THEN Goto(d, "destroy_mark", [l EXCEPT !.i = l.i + 1])
                   /\ UNCHANGED ioq_lock
              ELSE /\ ioq_lock' = NoThread
                   /\ Goto(d, "destroy_snap", [l EXCEPT !.i = 0, !.j = 1])
    /\ UNCHANGED <<unitVars, namespaces, shutting_down, next_queue_id, queue_selector, ioq,
                   admin_sq, admin_cq, admin_lock, hw, ghost>>

\* destroy_ioq, phase 2: the pool is cloned for one namespace.
DestroySnap(d) ==
    /\ pc[d] = "destroy_snap"
    /\ ioq_lock = NoThread
    /\ LET l == loc[d] IN
       IF l.j <= Len(Namespaces) /\ ioq # <<>>
       THEN Goto(d, "destroy_flush", [l EXCEPT !.acc = ioq, !.i = 1])
       ELSE IF l.j < Len(Namespaces)
       THEN Goto(d, "destroy_snap", [l EXCEPT !.j = l.j + 1])
       ELSE Goto(d, "destroy_del_snap", l)
    /\ UNCHANGED <<unitVars, namespaces, shutting_down, next_queue_id, queue_selector, ioq,
                   ioq_lock, pairs, admin_sq, admin_cq, admin_lock, hw, ghost>>

\* destroy_ioq, phase 2: one queue is locked and a flush pushed.
DestroyFlushPush(d) ==
    /\ pc[d] = "destroy_flush"
    /\ FlushPush(d, loc[d].acc[loc[d].i], FALSE, "destroy_flush_wait")
    /\ UNCHANGED <<unitVars, namespaces, shutting_down, next_queue_id, queue_selector, ioq,
                   ioq_lock, admin_sq, admin_cq, admin_lock>>

\* destroy_ioq, phase 2: the flush completes.
DestroyFlushPop(d) ==
    /\ pc[d] = "destroy_flush_wait"
    /\ LET l == loc[d] IN
          /\ FlushPop(d, l.acc[l.i])
          /\ IF l.i < Len(l.acc)
             THEN Goto(d, "destroy_flush", [l EXCEPT !.i = l.i + 1])
             ELSE IF l.j < Len(Namespaces)
             THEN Goto(d, "destroy_snap", [l EXCEPT !.j = l.j + 1])
             ELSE Goto(d, "destroy_del_snap", l)
    /\ UNCHANGED <<unitVars, namespaces, shutting_down, next_queue_id, queue_selector, ioq,
                   ioq_lock, admin_sq, admin_cq, admin_lock, hw>>

\* destroy_ioq, phase 3: the pool is cloned; it is gone through in reverse.
DestroyDelSnap(d) ==
    /\ pc[d] = "destroy_del_snap"
    /\ ioq_lock = NoThread
    /\ IF ioq = <<>>
       THEN Goto(d, "destroy_clear", loc[d])
       ELSE Goto(d, "destroy_del", [loc[d] EXCEPT !.acc = Reverse(ioq), !.i = 1])
    /\ UNCHANGED <<unitVars, namespaces, shutting_down, next_queue_id, queue_selector, ioq,
                   ioq_lock, pairs, admin_sq, admin_cq, admin_lock, hw, ghost>>

\* destroy_ioq, phase 3: one queue is locked for its id, and its two admin
\* commands follow.
DestroyDel(d) ==
    /\ pc[d] = "destroy_del"
    /\ LET l == loc[d]
           q == l.acc[l.i]
       IN  /\ pairs[q].lock = NoThread
           /\ Goto(d, "adm_prep", [l EXCEPT !.q = pairs[q].qid, !.step = 1])
    /\ UNCHANGED <<unitVars, namespaces, shutting_down, next_queue_id, queue_selector, ioq,
                   ioq_lock, pairs, admin_sq, admin_cq, admin_lock, hw, ghost>>

\* destroy_ioq: the pool is cleared and the queue ids start again at 1.
DestroyClear(d) ==
    /\ pc[d] = "destroy_clear"
    /\ ioq_lock = NoThread
    /\ ioq' = <<>>
    /\ next_queue_id' = 1
    /\ Goto(d, "drop_reset", loc[d])
    /\ UNCHANGED <<unitVars, namespaces, shutting_down, queue_selector, ioq_lock, pairs,
                   admin_sq, admin_cq, admin_lock, hw, ghost>>

\* A write of CC that leaves the enable bit as it is.
CcKeep(h) == h

\* set_reg(CC, get_reg(CC) & !1): the controller is reset and forgets its
\* queues.
CcDisable(h) == [HwReset EXCEPT !.en = FALSE]

\* drop, step 4: CC.EN is cleared, whatever destroy_ioq returned; the
\* device is gone for every thread that held it.
DropReset(d) ==
    /\ pc[d] = "drop_reset"
    /\ hw' = CcDisable(hw)
    /\ pc' = [t \in Threads |->
                IF t \in DevThreads /\ pc[t] # "absent" THEN "dropped" ELSE pc[t]]
    /\ loc' = [loc EXCEPT ![d] = NoLocal]
    /\ UNCHANGED <<unitVars, namespaces, shutting_down, next_queue_id, queue_selector, ioq,
                   ioq_lock, pairs, admin_sq, admin_cq, admin_lock, ghost>>

\* No call is about to return.
Running == \A t \in Threads : pc[t] # "done"

\* A return is a step of the caller alone: it is taken before any other
\* step.
Next ==
    \/ \E t \in NsThreads :
         /\ Running
         /\ \/ NsCall(t) \/ SelLock(t) \/ SelFilter(t) \/ SelScan(t)
               \/ NsSubmit(t) \/ NsComplete(t)
    \/ \E d \in DevThreads :
         /\ Running
         /\ \/ SetIoqCount(d) \/ AddBegin(d) \/ AdmPrep(d) \/ ExecAdminPush(d)
            \/ ExecAdminPop(d) \/ AddPush(d)
            \/ RmLock(d) \/ RmStats(d) \/ RmMark(d) \/ RmFlushPush(d)
            \/ RmFlushPop(d) \/ RmDrain(d) \/ RmRetainLock(d) \/ RmRetain(d)
            \/ Drop(d) \/ DropSnap(d) \/ DropFlushPush(d) \/ DropFlushPop(d)
            \/ DestroyBegin(d) \/ DestroyMark(d) \/ DestroySnap(d)
            \/ DestroyFlushPush(d) \/ DestroyFlushPop(d) \/ DestroyDelSnap(d)
            \/ DestroyDel(d) \/ DestroyClear(d) \/ DropReset(d)
    \/ \E t \in Threads : Return(t)
    \/ Running /\ CtrlAdmin
    \/ \E q \in Qids : Running /\ CtrlIo(q)

Spec == Init /\ [][Next]_vars

(***************************************************************************)
(* SpecPool: the device from the state that init and a successful          *)
(* set_ioq_count(n), 1 <= n <= min(max_io_sq, max_io_cq), leave it in.     *)
(***************************************************************************)
\* exec_admin of one command on an idle admin pair: [sq, cq, hw].
ExecOne(st, opc, arg) ==
    LET p == TryPush(st.sq, Cmd(opc, st.sq.tail, arg))
        c == HwAdminStep(RingSubTail(st.hw, 0, p.tail), p.sq, st.cq)
        r == TryPop(c.cq)
    IN  [sq |-> SetHead(c.sq, r.entry.sq_head), cq |-> r.cq, hw |-> c.hw]

RECURSIVE AfterAdds(_)
\* The admin pair and the controller after init and the queues 2..n added.
AfterAdds(n) ==
    IF n <= 1 THEN AfterInit
    ELSE ExecOne(ExecOne(AfterAdds(n - 1), "create_cq", n), "create_sq", n)

\* The device after init and a successful set_ioq_count(n).
PoolState ==
    /\ sq = NoQueue
    /\ cq = NoQueue
    /\ ctrl = NoCtrl
    /\ out = NoOut
    /\ hist = NoHist
    /\ shutting_down = FALSE
    /\ queue_selector = 0
    /\ ioq_lock = NoThread
    /\ admin_lock = NoThread
    /\ namespaces = FoundNamespaces
    /\ loc = [t \in Threads |-> NoLocal]
    /\ \E n \in 1..HwLimit :
         /\ next_queue_id = n + 1
         /\ ioq = [i \in 1..n |-> i]
         /\ pairs = [q \in Qids |-> IF q <= n THEN NewPair(q) ELSE NoPair]
         /\ admin_sq = AfterAdds(n).sq
         /\ admin_cq = AfterAdds(n).cq
         /\ hw = AfterAdds(n).hw
         /\ ghost = [io_inflight |-> 0,
                     admin_done |-> [q \in Qids |->
                         IF q <= n THEN {"create_cq", "create_sq"} ELSE {}],
                     flushed |-> {}, failed |-> {}, init |-> "Ok", issued |-> <<>>,
                nslist |-> <<>>]

InitPool ==
    /\ PoolState
    /\ \E P \in Populations :
         pc = [t \in Threads |-> IF t \in P THEN "idle" ELSE "absent"]

SpecPool == InitPool /\ [][Next]_vars

(***************************************************************************)
(* SpecRace: two threads that call set_ioq_count and a third that calls    *)
(* write, on a device whose pool is at the limit.  The device is not       *)
(* dropped.                                                                *)
(***************************************************************************)
\* The calls of the third thread: a write of one block from a buffer that
\* is not dword aligned.
RaceInputs ==
    { [op |-> "write", virt |-> v, bytes |-> block_size] : v \in {2} }

InitRace ==
    /\ PoolState
    /\ Len(ioq) = HwLimit
    /\ pc = [t \in Threads |-> IF t = "n2" THEN "absent" ELSE "idle"]

NextRace ==
    \/ \E t \in NsThreads :
         /\ Running
         /\ \/ NsCallFrom(t, RaceInputs) \/ SelLock(t) \/ SelFilter(t)
            \/ SelScan(t) \/ NsSubmit(t)
    \/ \E d \in DevThreads :
         /\ Running
         /\ \/ SetIoqCount(d) \/ AddBegin(d) \/ AdmPrep(d) \/ ExecAdminPush(d)
            \/ ExecAdminPop(d)
            \/ RmLock(d) \/ RmStats(d) \/ RmMark(d) \/ RmFlushPush(d)
            \/ RmFlushPop(d) \/ RmDrain(d) \/ RmRetainLock(d) \/ RmRetain(d)
    \/ \E t \in Threads : Return(t)
    \/ Running /\ CtrlAdmin
    \/ \E q \in Qids : Running /\ CtrlIo(q)

SpecRace == InitRace /\ [][NextRace]_vars

(***************************************************************************)
(* SpecInit: one thread calls init on a controller that has just been      *)
(* enabled, uses the device it gets and drops it.  The controller may      *)
(* complete any admin command with an error status.                        *)
(***************************************************************************)
\* The thread that calls init.
InitThreads == {"d1"}

\* The answers to Identify (Namespace List) tried: the first ids of the
\* buffer, 0 for an unused entry.
NsListSamples == {<<0, 0, 0>>, <<1, 0, 2>>}

\* lba_format_support of the namespaces tried: the LBADS field of formats
\* 0 to 3.
Lbaf == <<9, 12, 0, 8>>

\* NamespaceData.lba_size (FLBAS) of the namespaces tried.
LbaSizeSamples == {0, 19}

\* The controller fetches the admin command at its head and posts a
\* completion with an error status, executing nothing: [hw, sq, cq].
HwAdminRefuse(h, asq, acq) ==
    LET cmd == asq.slots[h.asqHead]
        nh  == (h.asqHead + 1) % asq.len
    IN  [hw |-> [h EXCEPT !.asqHead = nh,
                          !.acqTail = (h.acqTail + 1) % acq.len,
                          !.acqPhase = IF h.acqTail = acq.len - 1
                                       THEN ~h.acqPhase ELSE h.acqPhase],
         sq |-> Fetched(asq, h.asqHead),
         cq |-> [acq EXCEPT !.slots[h.acqTail] =
                    Completion(2 + PhaseBit(h.acqPhase), nh, cmd.cid)]]

CtrlAdminFail ==
    /\ HwAdminReady(hw, admin_cq)
    /\ LET r == HwAdminRefuse(hw, admin_sq, admin_cq) IN
          /\ hw' = r.hw
          /\ admin_sq' = r.sq
          /\ admin_cq' = r.cq
    /\ UNCHANGED <<unitVars, namespaces, shutting_down, next_queue_id,
                   queue_selector, ioq, ioq_lock, pairs, admin_lock, pc, loc,
                   ghost>>

\* exec_admin of one command by a thread that is alone, on a controller
\* that refuses it or not: [sq, cq, hw, sc].
ExecAlone(st, opc, arg, refuse) ==
    LET p == TryPush(st.sq, Cmd(opc, st.sq.tail, arg))
        h == RingSubTail(st.hw, 0, p.tail)
        c == IF refuse THEN HwAdminRefuse(h, p.sq, st.cq)
             ELSE HwAdminStep(h, p.sq, st.cq)
        r == TryPop(c.cq)
    IN  [sq |-> SetHead(c.sq, r.entry.sq_head), cq |-> r.cq, hw |-> c.hw,
         sc |-> StatusCode(r.entry.status)]

\* The ids of an Identify (Namespace List) buffer: the entries that are
\* not 0.
ListedIds(buf) == SelectSeq(buf, LAMBDA id : id # 0)

\* The Namespace record built from the NamespaceData of namespace id.
NamespaceOf(id, lba_size) ==
    [id |-> id, block_size |-> 2 ^ Lbaf[(lba_size % 16) + 1],
     lba_size |-> lba_size]

\* namespaces.write().insert(id, ..) on the map kept by ascending id.
NsInsert(m, rec) ==
    LET lower  == SelectSeq(m, LAMBDA x : x.id < rec.id)
        higher == SelectSeq(m, LAMBDA x : x.id > rec.id)
    IN  lower \o <<rec>> \o higher

\* The IdentifyType of the Identify at position step of init.
InitIdentify(step) ==
    IF step = 1 THEN "Controller"
    ELSE IF step = 5 THEN "NamespaceList"
    ELSE IF step > 5 THEN "Namespace" ELSE ""

\* The admin command of init at position step; from 6 on it is the
\* Identify of one namespace.
InitOpcode(step) ==
    IF step <= Len(InitAdminCommands) THEN InitAdminCommands[step]
    ELSE "identify"

\* The state after the controller was reset, given the admin queues and
\* enabled, before the first admin command of init.
InitBoot ==
    /\ sq = NoQueue
    /\ cq = NoQueue
    /\ ctrl = NoCtrl
    /\ out = NoOut
    /\ hist = NoHist
    /\ shutting_down = FALSE
    /\ next_queue_id = 1
    /\ queue_selector = 0
    /\ ioq = <<>>
    /\ ioq_lock = NoThread
    /\ pairs = [q \in Qids |-> NoPair]
    /\ admin_sq = SubQueueNew(admin_queue_size)
    /\ admin_cq = CompQueueNew(admin_queue_size, ZeroMem(admin_queue_size))
    /\ admin_lock = NoThread
    /\ hw = HwReset
    /\ namespaces = <<>>
    /\ pc = [t \in Threads |-> IF t \in InitThreads THEN "init" ELSE "absent"]
    /\ loc = [t \in Threads |->
                IF t \in InitThreads
                THEN [NoLocal EXCEPT !.op = "init", !.step = 1] ELSE NoLocal]
    /\ ghost = [io_inflight |-> 0, admin_done |-> [q \in Qids |-> {}],
                flushed |-> {}, failed |-> {}, init |-> "running",
                issued |-> <<>>, nslist |-> <<>>]

\* init: one admin command is executed and its answer used.  An error
\* status ends init: the device built so far is dropped and the error is
\* returned.
InitCmd(d) ==
    /\ pc[d] = "init"
    /\ \E refuse \in BOOLEAN, buf \in NsListSamples, lba_size \in LbaSizeSamples :
         LET l    == loc[d]
             opc  == InitOpcode(l.step)
             qid  == IF l.step = 3 THEN next_queue_id % U16 ELSE l.q
             arg  == IF l.step \in {3, 4} THEN qid
                     ELSE IF l.step > 5 THEN Head(l.acc) ELSE 0
             r    == ExecAlone([sq |-> admin_sq, cq |-> admin_cq, hw |-> hw],
                               opc, arg, refuse)
             ids  == IF l.step = 5 THEN ListedIds(buf)
                     ELSE IF l.step > 5 THEN Tail(l.acc) ELSE <<>>
             g    == [ghost EXCEPT
                        !.issued = Append(@, <<opc, InitIdentify(l.step), arg>>),
                        !.nslist = IF l.step = 5 /\ r.sc = 0 THEN buf ELSE @]
         IN  /\ l.step # 5 => buf = <<0, 0, 0>>
             /\ l.step <= 5 => lba_size = 0
             /\ admin_sq' = r.sq
             /\ admin_cq' = r.cq
             /\ hw' = r.hw
             /\ next_queue_id' = IF l.step = 3 THEN next_queue_id + 1
                                 ELSE next_queue_id
             /\ pairs' = IF l.step = 3 /\ r.sc = 0
                         THEN [pairs EXCEPT ![qid] = NewPair(qid)]
                         ELSE IF l.step = 4 /\ r.sc # 0
                         THEN [pairs EXCEPT ![qid] = NoPair]
                         ELSE pairs
             /\ ioq' = IF l.step = 4 /\ r.sc = 0 THEN Append(ioq, qid) ELSE ioq
             /\ namespaces' = IF l.step > 5 /\ r.sc = 0
                              THEN NsInsert(namespaces,
                                            NamespaceOf(Head(l.acc), lba_size))
                              ELSE namespaces
             /\ IF r.sc # 0
                THEN /\ shutting_down' = TRUE
                     /\ ghost' = [g EXCEPT !.init = "CommandFailed",
                                           !.failed = @ \cup {<<"init", opc>>}]
                     /\ Goto(d, "drop_snap", [NoLocal EXCEPT !.op = "drop",
                                                !.j = 1, !.step = l.step])
                ELSE /\ UNCHANGED shutting_down
                     /\ IF l.step >= 5 /\ ids = <<>>
                        THEN /\ ghost' = [g EXCEPT !.init = "Ok"]
                             /\ Goto(d, "idle", NoLocal)
                        ELSE /\ ghost' =
                                  IF l.step \in {3, 4}
                                  THEN [g EXCEPT !.admin_done[qid] = @ \cup {opc}]
                                  ELSE g
                             /\ Goto(d, "init", [l EXCEPT !.step = l.step + 1,
                                                    !.q = qid, !.acc = ids])
    /\ UNCHANGED <<unitVars, queue_selector, ioq_lock, admin_lock>>

NextInit ==
    \/ \E d \in InitThreads :
         /\ Running
         /\ \/ InitCmd(d)
            \/ SetIoqCount(d) \/ AddBegin(d) \/ AdmPrep(d) \/ ExecAdminPush(d)
            \/ ExecAdminPop(d) \/ AddPush(d)
            \/ RmLock(d) \/ RmStats(d) \/ RmMark(d) \/ RmFlushPush(d)
            \/ RmFlushPop(d) \/ RmDrain(d) \/ RmRetainLock(d) \/ RmRetain(d)
            \/ Drop(d) \/ DropSnap(d) \/ DropFlushPush(d) \/ DropFlushPop(d)
            \/ DestroyBegin(d) \/ DestroyMark(d) \/ DestroySnap(d)
            \/ DestroyFlushPush(d) \/ DestroyFlushPop(d) \/ DestroyDelSnap(d)
            \/ DestroyDel(d) \/ DestroyClear(d) \/ DropReset(d)
    \/ \E t \in InitThreads : Return(t)
    \/ Running /\ CtrlAdmin
    \/ Running /\ CtrlAdminFail
    \/ \E q \in Qids : Running /\ CtrlIo(q)

SpecInit == InitBoot /\ [][NextInit]_vars

\* init by a caller that does nothing with the device but drop it.
NextInitDrop ==
    \/ \E d \in InitThreads :
         \/ InitCmd(d)
         \/ AdmPrep(d) \/ ExecAdminPush(d) \/ ExecAdminPop(d)
         \/ Drop(d) \/ DropSnap(d) \/ DropFlushPush(d) \/ DropFlushPop(d)
         \/ DestroyBegin(d) \/ DestroyMark(d) \/ DestroySnap(d)
         \/ DestroyFlushPush(d) \/ DestroyFlushPop(d) \/ DestroyDelSnap(d)
         \/ DestroyDel(d) \/ DestroyClear(d) \/ DropReset(d)
    \/ CtrlAdmin
    \/ CtrlAdminFail
    \/ \E q \in Qids : CtrlIo(q)

\* The thread is not stopped inside a call and the controller answers the
\* commands it was given.
SpecInitFair == InitBoot /\ [][NextInitDrop]_vars /\ WF_vars(NextInitDrop)

(***************************************************************************)
(* SpecBoot: init from its first register write.  ctrl holds the registers *)
(* of the controller, hist what init has read and written so far.         *)
(* CSTS.RDY follows CC.EN after a delay of the controller's choosing.      *)
(***************************************************************************)
\* CC as the firmware left it: disabled, enabled, enabled with entry sizes,
\* with bits in CSS, MPS and the upper byte, and with bits 1 to 3 set.
CcSamples == {0, 1, 6, 4587521, 16779249, 33554433, 50331662}

\* cc & !1
CcClearEn(cc) == cc - (cc % 2)

\* (cc & 0xFF00_000F) | (4 << 20) | (6 << 16)
CcEntrySizes(cc) ==
    (cc \div 16777216) * 16777216 + (cc % 16) + 4 * 1048576 + 6 * 65536

\* cc | 1
CcSetEn(cc) == cc + 1 - (cc % 2)

\* CC.IOCQES and CC.IOSQES
Iocqes(cc) == (cc \div 1048576) % 16
Iosqes(cc) == (cc \div 65536) % 16

\* (admin_queue_size - 1) << 16 | (admin_queue_size - 1)
AqaOf(size) == (size - 1) * 65536 + (size - 1)

\* init with CC.EN set before the admin queue registers are written.
BootProgramEarlyEnable ==
    <<"cc_clear", "wait_rdy0", "cc_sizes", "cc_enable", "asq", "acq", "aqa",
      "wait_rdy1">>

\* The register accesses of init, in program order.
BootProgram ==
    <<"cc_clear", "wait_rdy0", "asq", "acq", "aqa", "cc_sizes", "cc_enable",
      "wait_rdy1">>

InitRegs ==
    /\ sq = NoQueue
    /\ cq = NoQueue
    /\ \E cc \in CcSamples :
         /\ ctrl = [cc |-> cc, rdy |-> cc % 2 = 1, aqa |-> 0]
         /\ hw = [HwReset EXCEPT !.en = (cc % 2 = 1)]
    /\ out = NoOut
    /\ hist = [written |-> {}, rdy0 |-> FALSE, rdy1 |-> FALSE]
    /\ shutting_down = FALSE
    /\ next_queue_id = 1
    /\ queue_selector = 0
    /\ ioq = <<>>
    /\ ioq_lock = NoThread
    /\ pairs = [q \in Qids |-> NoPair]
    /\ admin_sq = SubQueueNew(admin_queue_size)
    /\ admin_cq = CompQueueNew(admin_queue_size, ZeroMem(admin_queue_size))
    /\ admin_lock = NoThread
    /\ namespaces = <<>>
    /\ pc = [t \in Threads |-> IF t \in InitThreads THEN "boot" ELSE "absent"]
    /\ loc = [t \in Threads |->
                IF t \in InitThreads
                THEN [NoLocal EXCEPT !.op = "init", !.step = 1] ELSE NoLocal]
    /\ ghost = [io_inflight |-> 0, admin_done |-> [q \in Qids |-> {}],
                flushed |-> {}, failed |-> {}, init |-> "running",
                issued |-> <<>>, nslist |-> <<>>]

\* One register access of init.  A spin loop goes on when it reads the
\* value it waits for.
BootStep(d) ==
    /\ pc[d] = "boot"
    /\ LET l    == loc[d]
           op   == BootProgram[l.step]
           cc   == CASE op = "cc_clear" -> CcClearEn(ctrl.cc)
                     [] op = "cc_sizes" -> CcEntrySizes(ctrl.cc)
                     [] op = "cc_enable" -> CcSetEn(ctrl.cc)
                     [] OTHER -> ctrl.cc
       IN  /\ op = "wait_rdy0" => ~ctrl.rdy
           /\ op = "wait_rdy1" => ctrl.rdy
           /\ ctrl' = [ctrl EXCEPT !.cc = cc,
                                   !.aqa = IF op = "aqa"
                                           THEN AqaOf(admin_queue_size) ELSE @]
           /\ hw' = IF cc % 2 = ctrl.cc % 2 THEN hw
                    ELSE IF cc % 2 = 1 THEN HwReset ELSE CcDisable(hw)
           /\ hist' = [hist EXCEPT
                         !.written = IF op \in {"asq", "acq", "aqa"}
                                     THEN @ \cup {op} ELSE @,
                         !.rdy0 = @ \/ op = "wait_rdy0",
                         !.rdy1 = @ \/ op = "wait_rdy1"]
           /\ IF l.step < Len(BootProgram)
              THEN Goto(d, "boot", [l EXCEPT !.step = l.step + 1])
              ELSE Goto(d, "init", [l EXCEPT !.step = 1])
    /\ UNCHANGED <<sq, cq, out, namespaces, shutting_down, next_queue_id,
                   queue_selector, ioq, ioq_lock, pairs, admin_sq, admin_cq,
                   admin_lock, ghost>>

\* The controller takes CSTS.RDY to the value of CC.EN.
CtrlReady ==
    /\ ctrl.rdy # (ctrl.cc % 2 = 1)
    /\ ctrl' = [ctrl EXCEPT !.rdy = (ctrl.cc % 2 = 1)]
    /\ UNCHANGED <<sq, cq, out, hist, devVars>>

\* The specification ends where init returns the device or starts to drop
\* it.
NextBoot ==
    \/ \E d \in InitThreads : BootStep(d)
    \/ \E d \in InitThreads : InitCmd(d)
    \/ CtrlReady

SpecBoot == InitRegs /\ [][NextBoot]_vars

(***************************************************************************)
(* SpecCap: the values init derives from the CAP register.                 *)
(***************************************************************************)
\* CAP[15:0], CAP[35:32] and CAP[51:48] of the controllers tried.
CapLowSamples ==
    {0, 1, 2, 31, 255, 4094, 4095, 4096, 32767, 32768, 32799, 65535}
CapDstrdSamples == {0, 1, 15}
CapMpsminSamples == {0, 1}

\* (cap & 0x7FFF) as usize + 1
MaxQueueEntriesOf(low) == (low % 32768) + 1

\* max_queue_entries.max(MIN_ADMIN_QUEUE_SIZE)
AdminQueueSizeOf(low) ==
    IF MaxQueueEntriesOf(low) > MIN_ADMIN_QUEUE_SIZE
    THEN MaxQueueEntriesOf(low) ELSE MIN_ADMIN_QUEUE_SIZE

\* 1 << (((cap >> 48) as u8 & 0xF) + 12)
MinPageSizeOf(mpsmin) == 2 ^ ((mpsmin % 16) + 12)

InitCap ==
    /\ sq = NoQueue
    /\ cq = NoQueue
    /\ ctrl = NoCtrl
    /\ hist = NoHist
    /\ \E low \in CapLowSamples, dstrd \in CapDstrdSamples,
          mpsmin \in CapMpsminSamples :
         out = [op |-> "cap", low |-> low, dstrd |-> dstrd, mpsmin |-> mpsmin,
                size |-> 0, aqa |-> 0, min_pagesize |-> 0]
    /\ DevOff

\* init up to the write of AQA.
CapStep ==
    /\ out.op = "cap"
    /\ out' = [out EXCEPT !.op = "aqa_written",
                          !.size = AdminQueueSizeOf(out.low),
                          !.aqa = AqaOf(AdminQueueSizeOf(out.low)),
                          !.min_pagesize = MinPageSizeOf(out.mpsmin)]
    /\ UNCHANGED <<sq, cq, ctrl, hist, devVars>>

NextCap == CapStep

SpecCap == InitCap /\ [][NextCap]_vars

(***************************************************************************)
(* pop_n against consecutive pops (queues.rs).  The ring starts at any     *)
(* head and phase, every slot carrying its index as command id and an      *)
(* arbitrary phase tag; one branch calls pop_n(step), the other pops one   *)
(* entry at a time.  hist: start = the ring before the first call, step =  *)
(* the argument, pops = pops of the one-at-a-time branch so far.           *)
(***************************************************************************)
\* Largest step tried: more than two laps of the longest ring.
MaxStep == 2 * MaxLen + 1

\* pop_n before its pop() with the phase never toggled.
PopNAdvanceNoFlip(q, step) ==
    [q EXCEPT !.head = (q.head + step - 1) % q.len]

\* head += step - 1; if head >= len { phase = !phase }; head %= len
PopNAdvance(q, step) ==
    [q EXCEPT !.phase = IF q.head + step - 1 >= q.len THEN ~q.phase
                        ELSE q.phase,
              !.head = (q.head + step - 1) % q.len]

\* pop_n(step): ok = FALSE is the pop() at the end still spinning.
PopN(q, step) == TryPop(PopNAdvance(q, step))

\* n consecutive pop() calls; ok = FALSE when one of them finds no entry.
RECURSIVE PopTimes(_, _)
PopTimes(q, n) ==
    LET r == TryPop(q) IN
    IF n <= 1 \/ ~r.ok THEN r ELSE PopTimes(r.cq, n - 1)

InitPopN ==
    /\ DevOff
    /\ sq = NoQueue
    /\ ctrl = NoCtrl
    /\ out = NoOut
    /\ \E len \in Lens :
         \E tags \in [0..(len - 1) -> 0..1], head \in 0..(len - 1),
            phase \in BOOLEAN, step \in 1..MaxStep :
            /\ cq = [len |-> len, head |-> head, phase |-> phase,
                     slots |-> [i \in 0..(len - 1) |->
                                   Completion(tags[i], 0, i)]]
            /\ hist = [start |-> cq, step |-> step, pops |-> 0]

\* pop_n(step)
PnPopN ==
    LET r == PopN(cq, hist.step) IN
    /\ out = NoOut
    /\ cq' = r.cq
    /\ out' = [op |-> "pop_n", ok |-> r.ok, val |-> r.head, entry |-> r.entry]
    /\ UNCHANGED <<sq, ctrl, hist, devVars>>

\* pop(), up to step times
PnPop ==
    LET r == TryPop(cq) IN
    /\ out = NoOut \/ out.op = "pop"
    /\ hist.pops < hist.step
    /\ r.ok
    /\ cq' = r.cq
    /\ out' = [op |-> "pop", ok |-> TRUE, val |-> r.head, entry |-> r.entry]
    /\ hist' = [hist EXCEPT !.pops = @ + 1]
    /\ UNCHANGED <<sq, ctrl, devVars>>

NextPopN == PnPopN \/ PnPop

SpecPopN == InitPopN /\ [][NextPopN]_vars

(***************************************************************************)
(* SpecLive: one thread that holds a namespace and one that holds the      *)
(* device, after a set_ioq_count, under fair scheduling: a thread inside   *)
(* a call whose next step is possible again and again takes it (it is not  *)
(* stopped, and not starved of a lock), a caller takes the result of a call *)
(* that has returned, and the controller executes every command of a queue *)
(* that exists, I/O commands first.  Whether and when a thread makes a     *)
(* call is left open.                                                      *)
(***************************************************************************)
\* The calls of the namespace thread: a write of one block, a trim, and a
\* write from a buffer that is not dword aligned.
LiveInputs ==
    { [op |-> op, virt |-> 0, bytes |-> block_size] : op \in {"write", "trim"} }
    \cup {[op |-> "write", virt |-> 2, bytes |-> block_size]}

InitLive ==
    /\ PoolState
    /\ pc = [t \in Threads |-> IF t \in {"n1", "d1"} THEN "idle" ELSE "absent"]

\* A step of thread t inside a namespace operation.
NsProgress(t) ==
    \/ SelLock(t) \/ SelFilter(t) \/ SelScan(t) \/ NsSubmit(t)
    \/ NsComplete(t)

\* A step of thread d inside set_ioq_count or drop.
DevProgress(d) ==
    \/ AddBegin(d) \/ AdmPrep(d) \/ ExecAdminPush(d) \/ ExecAdminPop(d)
    \/ AddPush(d)
    \/ RmLock(d) \/ RmStats(d) \/ RmMark(d) \/ RmFlushPush(d)
    \/ RmFlushPop(d) \/ RmDrain(d) \/ RmRetainLock(d) \/ RmRetain(d)
    \/ DropSnap(d) \/ DropFlushPush(d) \/ DropFlushPop(d)
    \/ DestroyBegin(d) \/ DestroyMark(d) \/ DestroySnap(d)
    \/ DestroyFlushPush(d) \/ DestroyFlushPop(d) \/ DestroyDelSnap(d)
    \/ DestroyDel(d) \/ DestroyClear(d) \/ DropReset(d)

\* The controller executes the commands it was given on the I/O queues
\* before the next admin command: no queue is deleted with a command in it
\* that the controller has not completed.
CtrlAdminAfterIo ==
    /\ \A q \in Qids : hw.io[q].sq => hw.io[q].sqHead = hw.io[q].sqTailDb
    /\ CtrlAdmin

NextLive ==
    \/ \E t \in NsThreads : NsCallFrom(t, LiveInputs)
    \/ \E t \in NsThreads : NsProgress(t)
    \/ \E d \in DevThreads : SetIoqCount(d) \/ Drop(d)
    \/ \E d \in DevThreads : DevProgress(d)
    \/ \E t \in Threads : Return(t)
    \/ CtrlAdminAfterIo
    \/ \E q \in Qids : CtrlIo(q)

LiveFairness ==
    /\ \A t \in NsThreads : SF_vars(NsProgress(t))
    /\ \A d \in DevThreads : SF_vars(DevProgress(d))
    /\ \A t \in Threads : WF_vars(Return(t))
    /\ WF_vars(CtrlAdminAfterIo)
    /\ \A q \in Qids : WF_vars(CtrlIo(q))

SpecLive == InitLive /\ [][NextLive]_vars /\ LiveFairness

(***************************************************************************)
(* SpecMP: MultipathController (multipath.rs).  ctrl is the controller:    *)
(* [paths, active_path, path_selector, enabled, failed_paths]; paths were  *)
(* added with the ids 1, 2, ... in this order.  out is the last call and   *)
(* its result: "Ok" with a path id, "PathFailure", or "panic".             *)
(***************************************************************************)
\* Paths of a controller, at most.
MaxPaths == 3

\* Failures recorded on one path, at most.
MaxErrors == 2

\* u32::MAX, scaled to 31 bits: above every score of a usable path.
U32_MAX == 2 ^ 30 + (2 ^ 30 - 1)

PathSelectors ==
    {"RoundRobin", "LowestLatency", "LeastIo", "BestScore", "Priority"}

\* The paths tried: a load m stands for the latency, the I/O count and the
\* priority of the path.
PathSamples(id) ==
    { [path_id |-> id, state |-> s, ana_state |-> a, priority |-> m,
       latency_us |-> m, io_count |-> m, error_count |-> 0] :
        s \in {"Active", "Failed"},
        a \in {"Optimized", "Inaccessible"},
        m \in {0, 1} }

\* ControllerPath::is_usable
IsUsable(p) ==
    /\ p.state \in {"Active", "Optimized", "NonOptimized"}
    /\ p.ana_state \notin {"Inaccessible", "PersistentLoss"}

\* ControllerPath::get_score
GetScore(p) ==
    IF ~IsUsable(p) THEN U32_MAX
    ELSE LET base == p.priority * 1000 + p.latency_us
             rate == IF p.io_count > 0
                     THEN ((p.error_count * 100) \div p.io_count) * 100
                     ELSE 0
         IN  IF p.ana_state = "Optimized" THEN base + rate
             ELSE IF p.ana_state = "NonOptimized" THEN base + rate + 5000
             ELSE U32_MAX

\* The key min_by_key compares under a strategy.
SelectorKey(sel, p) ==
    IF sel = "LowestLatency" THEN p.latency_us
    ELSE IF sel = "LeastIo" THEN p.io_count
    ELSE IF sel = "BestScore" THEN GetScore(p)
    ELSE p.priority

\* paths.iter().enumerate().filter(is_usable): the indices, from 0, of the
\* usable paths, in order.
RECURSIVE UsablePaths(_, _)
UsablePaths(paths, i) ==
    IF i > Len(paths) THEN <<>>
    ELSE IF IsUsable(paths[i])
    THEN <<i - 1>> \o UsablePaths(paths, i + 1)
    ELSE UsablePaths(paths, i + 1)

\* min_by_key(..).map(|(idx, _)| *idx): the enumerate index of the first
\* usable path with the least key.
MinByKey(paths, usable, sel) ==
    LET Key(k) == SelectorKey(sel, paths[usable[k] + 1])
        best == CHOOSE k \in 1..Len(usable) :
                   /\ \A j \in 1..Len(usable) : Key(k) <= Key(j)
                   /\ \A j \in 1..(k - 1) : Key(j) > Key(k)
    IN  usable[best]

\* selected_idx of select_path: the round-robin position, or the enumerate
\* index the strategy selects.
SelectedIdx(c, usable) ==
    IF c.path_selector = "RoundRobin"
    THEN (c.active_path + 1) % Len(usable)
    ELSE MinByKey(c.paths, usable, c.path_selector)

\* select_path: [res, val, c]
SelectPath(c) ==
    LET usable == UsablePaths(c.paths, 1) IN
    IF c.paths = <<>> \/ usable = <<>>
    THEN [res |-> "PathFailure", val |-> 0, c |-> c]
    ELSE LET idx == SelectedIdx(c, usable) IN
         IF idx >= Len(usable)
         THEN [res |-> "panic", val |-> 0, c |-> c]
         ELSE LET id == c.paths[usable[idx + 1] + 1].path_id IN
              [res |-> "Ok", val |-> id, c |-> [c EXCEPT !.active_path = id]]

\* handle_path_failure up to its call of select_path: the first path with
\* the id is marked Failed and the id recorded.
MarkFailed(c, path_id) ==
    LET hit == {i \in 1..Len(c.paths) : c.paths[i].path_id = path_id}
        i   == CHOOSE k \in hit : \A j \in hit : k <= j
    IN  [c EXCEPT !.paths = IF hit = {} THEN @
                            ELSE [@ EXCEPT ![i].state = "Failed",
                                           ![i].error_count = @ + 1],
                  !.failed_paths = @ \cup {path_id}]

InitMP ==
    /\ DevOff
    /\ sq = NoQueue
    /\ cq = NoQueue
    /\ hist = NoHist
    /\ out = NoOut
    /\ \E n \in 0..MaxPaths :
         \E paths \in [1..n -> UNION {PathSamples(id) : id \in 1..n}],
            sel \in PathSelectors, en \in BOOLEAN, active \in 0..n :
            /\ \A i \in 1..n : paths[i].path_id = i
            /\ ctrl = [paths |-> paths, active_path |-> active,
                       path_selector |-> sel, enabled |-> en,
                       failed_paths |-> {}]

\* select_path(namespace_id, timestamp)
MpSelectPath ==
    LET r == SelectPath(ctrl) IN
    /\ out.op # "panic"
    /\ ctrl' = r.c
    /\ out' = [op |-> IF r.res = "panic" THEN "panic" ELSE "select_path",
               res |-> r.res, val |-> r.val, arg |-> 0]
    /\ UNCHANGED <<sq, cq, hist, devVars>>

\* handle_path_failure(path_id, timestamp)
MpHandlePathFailure ==
    /\ out.op # "panic"
    /\ \E path_id \in 1..MaxPaths :
         /\ \A i \in 1..Len(ctrl.paths) :
               ctrl.paths[i].error_count < MaxErrors
         /\ IF ~ctrl.enabled
            THEN /\ out' = [op |-> "handle_path_failure",
                            res |-> "PathFailure", val |-> 0,
                            arg |-> path_id]
                 /\ UNCHANGED ctrl
            ELSE LET r == SelectPath(MarkFailed(ctrl, path_id)) IN
                 /\ ctrl' = r.c
                 /\ out' = [op |-> IF r.res = "panic" THEN "panic"
                                   ELSE "handle_path_failure",
                            res |-> r.res, val |-> r.val, arg |-> path_id]
    /\ UNCHANGED <<sq, cq, hist, devVars>>

NextMP == MpSelectPath \/ MpHandlePathFailure

SpecMP == InitMP /\ [][NextMP]_vars

(***************************************************************************)
(* C1  Shutdown blocks new I/O: no namespace command is pushed to the SQ   *)
(* of a queue pair whose shutdown flag is set.  (The flag changes only     *)
(* under the queue lock, which the pushing thread holds until it has       *)
(* popped the completion: the flag of a command in flight is the flag at   *)
(* its push.)                                                              *)
(***************************************************************************)
ShutdownBlocksIo ==
    \A t \in NsThreads : pc[t] = "ns_wait" => ~pairs[loc[t].q].shutdown

(***************************************************************************)
(* C2  Outstanding conservation: the sum of the outstanding counters of    *)
(* all I/O queue pairs equals the number of commands pushed to I/O SQs     *)
(* minus the number of their completions popped.                           *)
(***************************************************************************)
OutstandingConservation == SumOutstanding = ghost.io_inflight

(***************************************************************************)
(* C3  Admin ordering per queue id: Create-SQ(qid) is issued only after    *)
(* Create-CQ(qid) has completed, and Delete-CQ(qid) only after             *)
(* Delete-SQ(qid) has completed, in set_ioq_count and in drop.             *)
(***************************************************************************)
AdminOrdering ==
    \A d \in DevThreads :
        pc[d] = "adm_wait" =>
            LET c == loc[d].cmd IN
            /\ c.opc = "create_sq" => "create_cq" \in ghost.admin_done[c.arg]
            /\ c.opc = "delete_cq" => "delete_sq" \in ghost.admin_done[c.arg]

\* Delete-CQ(2) is in flight in a removal, after Create-CQ(2), Create-SQ(2)
\* and Delete-SQ(2) have completed.
AdminOrderingWitness ==
    \E d \in DevThreads :
        /\ pc[d] = "adm_wait"
        /\ loc[d].op = "rm"
        /\ loc[d].cmd.opc = "delete_cq"
        /\ loc[d].cmd.arg = 2
        /\ ghost.admin_done[2] = {"create_cq", "create_sq", "delete_sq"}

(***************************************************************************)
(* C10  Admin serialization: at most one admin command is in flight:       *)
(* between the push of an admin command, with the tail doorbell of queue 0 *)
(* written, and the pop of its completion no other admin command is        *)
(* pushed.                                                                 *)
(***************************************************************************)
AdminSerialized ==
    /\ Cardinality({d \in DevThreads : pc[d] = "adm_wait"}) <= 1
    /\ (admin_sq.tail - admin_sq.head) % admin_sq.len <= 1
    /\ \A d \in DevThreads : pc[d] = "adm_wait" => admin_lock = d

\* One thread has an admin command in flight while another one, its command
\* built, waits for the admin lock.
AdminSerializedWitness ==
    \E d, e \in DevThreads :
        /\ pc[d] = "adm_wait"
        /\ pc[e] = "adm_lock"
        /\ admin_lock = d
        /\ HwAdminReady(hw, admin_cq)

(***************************************************************************)
(* C15  set_ioq_count rejects an invalid target with no side effect:       *)
(* target 0 returns InvalidQueueCount and a target above                   *)
(* min(max_io_sq, max_io_cq) returns TooManyQueues, at once: no admin      *)
(* command is pushed, no doorbell written, no queue marked, and the pool   *)
(* and the next queue id are unchanged.                                    *)
(***************************************************************************)
RejectsInvalidTarget ==
    [][\A d \in DevThreads :
         (/\ pc[d] = "idle"
          /\ pc'[d] # "idle"
          /\ loc'[d].op \in {"set", "add", "rm"}
          /\ (loc'[d].target = 0 \/ loc'[d].target > HwLimit))
         => /\ pc'[d] = "done"
            /\ loc'[d].res = IF loc'[d].target = 0 THEN "InvalidQueueCount"
                             ELSE "TooManyQueues"
            /\ UNCHANGED <<ioq, ioq_lock, pairs, next_queue_id, admin_sq,
                           admin_cq, admin_lock, hw, shutting_down,
                           queue_selector>>]_vars

\* A target above the limit was rejected while the pool was at the limit.
RejectsInvalidTargetWitness ==
    \E d \in DevThreads :
        /\ pc[d] = "done"
        /\ loc[d].op = "set"
        /\ loc[d].target > HwLimit
        /\ loc[d].res = "TooManyQueues"
        /\ Len(ioq) = HwLimit

(***************************************************************************)
(* C18  Global shutdown: a namespace operation invoked once shutting_down  *)
(* is set returns an error at once, DeviceShuttingDown if its arguments    *)
(* are valid: it selects no queue, takes no lock, changes no outstanding   *)
(* counter and pushes no command.                                          *)
(***************************************************************************)
ShutdownRejectsCalls ==
    [][\A t \in NsThreads :
         (pc[t] = "idle" /\ pc'[t] # "idle" /\ shutting_down)
         => /\ pc'[t] = "done"
            /\ loc'[t].res \in {"DeviceShuttingDown", "InvalidBufferSize"}
            /\ (loc'[t].bytes % block_size = 0
                  => loc'[t].res = "DeviceShuttingDown")
            /\ UNCHANGED <<ioq, ioq_lock, pairs, queue_selector, hw, ghost>>]_vars

\* A write of more than the transfer limit was invoked after drop had
\* started and returned DeviceShuttingDown, the pool still being there.
ShutdownRejectsCallsWitness ==
    \E t \in NsThreads :
        /\ pc[t] = "done"
        /\ shutting_down
        /\ loc[t].op = "write"
        /\ loc[t].bytes > max_transfer_size
        /\ loc[t].res = "DeviceShuttingDown"
        /\ ioq # <<>>

IsActive(q) == ~pairs[q].shutdown

\* The active queues of the pool, in pool order.
ActiveQueues == SelectSeq(ioq, IsActive)

IsLeastLoaded(q) ==
    \A i \in 1..Len(ActiveQueues) :
        pairs[q].outstanding <= pairs[ActiveQueues[i]].outstanding

\* The active queues with the least outstanding counter, in pool order.
LeastLoaded == SelectSeq(ActiveQueues, IsLeastLoaded)

SelectionPolicy ==
    [][\A t \in NsThreads :
         (/\ pc[t] \in {"select", "sel_filter", "sel_scan"}
          /\ pc'[t] \in {"ns_lock", "done"})
         => /\ pc'[t] = "done" <=> ActiveQueues = <<>>
            /\ pc'[t] = "ns_lock" =>
                 /\ \E i \in 1..Len(LeastLoaded) : loc'[t].q = LeastLoaded[i]
                 /\ Len(LeastLoaded) >= 2 =>
                      /\ loc'[t].q =
                           LeastLoaded[(queue_selector % Len(LeastLoaded)) + 1]
                      /\ queue_selector' = queue_selector + 1]_vars

(***************************************************************************)
(* C11  Unrelated I/O is not serialized: while a thread holds the lock of  *)
(* one queue pair and polls for the completion of its command, another     *)
(* thread that is selecting a queue is not held up, as long as the pool    *)
(* has another active queue.                                               *)
(***************************************************************************)
IoNotSerialized ==
    \A a, b \in NsThreads :
        (/\ pc[a] = "ns_wait"
         /\ pc[b] \in {"sel_filter", "sel_scan"}
         /\ \E i \in 1..Len(ActiveQueues) : ActiveQueues[i] # loc[a].q)
        => ENABLED (SelFilter(b) \/ SelScan(b))

(***************************************************************************)
(* C16  The pool is never emptied by removal: from init until drop it      *)
(* holds at least one queue pair, under every interleaving of calls of     *)
(* set_ioq_count and namespace operations.                                 *)
(***************************************************************************)
PoolNeverEmpty == ~shutting_down => IoqCount >= 1
(***************************************************************************)
(* C22  Buffer-size precondition: read, write and compare with a buffer    *)
(* whose length is no multiple of block_size return InvalidBufferSize and  *)
(* have no effect: no queue is selected, no outstanding counter changes,   *)
(* no command is pushed and no doorbell is written.                        *)
(***************************************************************************)
InvalidSizeNoEffect ==
    [][\A t \in NsThreads :
         /\ (/\ pc[t] = "idle"
             /\ pc'[t] # "idle"
             /\ HasPrp(loc'[t].op)
             /\ loc'[t].bytes % block_size # 0)
            => /\ pc'[t] = "done"
               /\ loc'[t].res = "InvalidBufferSize"
               /\ UNCHANGED <<ioq, ioq_lock, pairs, queue_selector, hw, ghost>>
         /\ (/\ pc'[t] \in {"select", "sel_filter", "sel_scan", "ns_lock",
                            "ns_wait"}
             /\ HasPrp(loc'[t].op))
            => loc'[t].bytes % block_size = 0]_vars

\* A compare with a buffer of a block and four bytes has returned
\* InvalidBufferSize on a device that is not shutting down, with every
\* counter at 0 and nothing in flight.
InvalidSizeNoEffectWitness ==
    \E t \in NsThreads :
        /\ pc[t] = "done"
        /\ loc[t].op = "compare"
        /\ loc[t].bytes = block_size + 4
        /\ loc[t].res = "InvalidBufferSize"
        /\ ~shutting_down
        /\ SumOutstanding = 0
        /\ ghost.io_inflight = 0

(***************************************************************************)
(* C28  Outstanding is restored on every return path: a namespace          *)
(* operation that incremented the counter of its queue decrements it       *)
(* before it returns, on success and on every error, so that every         *)
(* counter is 0 when no namespace operation is executing.                  *)
(***************************************************************************)
OutstandingRestored ==
    (\A t \in NsThreads : pc[t] \in {"idle", "absent", "done"})
        => \A q \in Qids : pairs[q].outstanding = 0
(***************************************************************************)
(* C29  Queue removal protocol: when set_ioq_count issues Delete-SQ(qid)   *)
(* for a queue it removes, the shutdown flag of the queue is set, a Flush  *)
(* for each namespace has been pushed on it and its completion popped,     *)
(* and the outstanding counter of the queue is 0; Delete-CQ(qid) follows   *)
(* Delete-SQ(qid).                                                         *)
(***************************************************************************)
RemovalProtocol ==
    [][\A d \in DevThreads :
         (/\ pc[d] = "adm_lock"
          /\ pc'[d] = "adm_wait"
          /\ loc[d].op = "rm")
         => LET q == loc[d].cmd.arg IN
            /\ pairs[q].shutdown
            /\ pairs[q].lock = NoThread => pairs[q].sq.head = pairs[q].sq.tail
            /\ loc[d].cmd.opc = "delete_sq" => pairs[q].outstanding = 0
            /\ loc[d].cmd.opc = "delete_cq" => "delete_sq" \in ghost.admin_done[q]]_vars
(***************************************************************************)
(* C25  Namespace block size: every Namespace record built during init has *)
(* block_size = 2^lbads with lbads the LBADS field of                      *)
(* LBAF[lba_size & 0xF], and a namespace whose block size would be below   *)
(* 512 bytes is not registered: every namespace get_ns returns has         *)
(* block_size >= 512.                                                      *)
(***************************************************************************)
NamespaceBlockSize ==
    \A i \in 1..Len(namespaces) :
        /\ namespaces[i].block_size = 2 ^ Lbaf[(namespaces[i].lba_size % 16) + 1]
        /\ namespaces[i].block_size >= 512
FailedRemovalClean ==
    \A d \in DevThreads :
        (pc[d] = "done" /\ loc[d].op = "rm" /\ loc[d].res = "CommandFailed")
        => \A k \in 1..Len(ioq) :
             /\ hw.io[ioq[k]].sq
             /\ hw.io[ioq[k]].cq
             /\ ~pairs[ioq[k]].shutdown
(***************************************************************************)
(* C31  Hardware queue lifecycle per qid: under every interleaving of      *)
(* set_ioq_count calls followed by drop, the controller receives for each  *)
(* I/O qid at most one Create-CQ, one Create-SQ, one Delete-SQ and one     *)
(* Delete-CQ, it never receives a Delete for a queue that does not exist   *)
(* at that moment, and the pairs of the pool have distinct qids.           *)
(***************************************************************************)
QueueLifecycle ==
    /\ [](\A i, k \in 1..Len(ioq) :
            i # k => pairs[ioq[i]].qid # pairs[ioq[k]].qid)
    /\ [][\A d \in DevThreads :
            (pc[d] = "adm_lock" /\ pc'[d] = "adm_wait")
            => LET c == loc[d].cmd IN
               /\ c.opc \notin ghost.admin_done[c.arg]
               /\ c.opc = "delete_sq" => hw.io[c.arg].sq
               /\ c.opc = "delete_cq" => hw.io[c.arg].cq]_vars
(***************************************************************************)
(* C32  Init ordering: ASQ, ACQ and AQA are written only after CC.EN was   *)
(* cleared and CSTS.RDY read as 0; CC.EN is set only after ASQ, ACQ, AQA   *)
(* and CC.IOCQES = 4, CC.IOSQES = 6 are programmed; no admin command is    *)
(* pushed before CSTS.RDY was read as 1; and the admin commands are issued *)
(* in the order Identify Controller, Set Features, Create-CQ(1),           *)
(* Create-SQ(1), Identify Namespace List, then one Identify Namespace per  *)
(* nonzero id of the list.                                                 *)
(***************************************************************************)
InitOrdering ==
    /\ [][/\ hist'.written # hist.written
             => ctrl.cc % 2 = 0 /\ hist.rdy0 /\ ~ctrl.rdy
          /\ (ctrl.cc % 2 = 0 /\ ctrl'.cc % 2 = 1)
             => /\ hist.written = {"asq", "acq", "aqa"}
                /\ Iocqes(ctrl.cc) = 4
                /\ Iosqes(ctrl.cc) = 6
          /\ ghost'.issued # ghost.issued
             => hist.rdy1 /\ ctrl.rdy /\ ctrl.cc % 2 = 1]_vars
    /\ [](LET ids == SelectSeq(ghost.nslist, LAMBDA id : id # 0)
              expected ==
                  <<<<"identify", "Controller", 0>>, <<"set_features", "", 0>>,
                    <<"create_cq", "", 1>>, <<"create_sq", "", 1>>,
                    <<"identify", "NamespaceList", 0>>>>
                  \o [i \in 1..Len(ids) |-> <<"identify", "Namespace", ids[i]>>]
          IN  /\ Len(ghost.issued) <= Len(expected)
              /\ ghost.issued = SubSeq(expected, 1, Len(ghost.issued))
              /\ ghost.init = "Ok" => ghost.issued = expected)

\* init has returned the device of a controller that was enabled when init
\* began and lists namespaces 1 and 2: seven admin commands were issued.
InitOrderingWitness ==
    /\ ghost.init = "Ok"
    /\ pc["d1"] = "idle"
    /\ Len(ghost.issued) = 7
    /\ ghost.nslist = <<1, 0, 2>>
    /\ ctrl.cc = 16779249 - 2033 + 1 + 4587520
    /\ hist.rdy0 /\ hist.rdy1
(***************************************************************************)
(* C33  Admin queue sizing and AQA encoding: for every CAP value init      *)
(* sizes the admin queues to max(MQES + 1, 2) with MQES = CAP[15:0], and   *)
(* the value written to AQA has AQA[11:0] = size - 1 and                   *)
(* AQA[27:16] = size - 1 with no bit set outside these two 12-bit fields.  *)
(***************************************************************************)
AqaEncoding ==
    out.op = "aqa_written" =>
        /\ out.size = (IF out.low + 1 > 2 THEN out.low + 1 ELSE 2)
        /\ out.aqa % 4096 = out.size - 1
        /\ (out.aqa \div 65536) % 4096 = out.size - 1
        /\ out.aqa = (out.size - 1) * 65536 + (out.size - 1)
        /\ out.size - 1 < 4096
(***************************************************************************)
(* C34  One command in flight per I/O queue: a namespace operation and a   *)
(* teardown flush hold the queue lock from the push to the pop of the      *)
(* completion, so every I/O queue has at most one command in flight, held  *)
(* by the thread that has the lock; no two commands in flight share a      *)
(* command id; and no thread that gets the lock finds the SQ full.         *)
(***************************************************************************)
OneInFlight ==
    \A q \in Qids :
        pairs[q].qid = q =>
            LET s       == pairs[q].sq
                occ     == (s.tail - s.head) % s.len
                waiting == {t \in Threads :
                              \/ /\ pc[t] \in {"ns_wait", "rm_flush_wait"}
                                 /\ loc[t].q = q
                              \/ /\ pc[t] \in {"drop_flush_wait",
                                               "destroy_flush_wait"}
                                 /\ loc[t].acc[loc[t].i] = q}
                pushing == {t \in Threads :
                              \/ /\ pc[t] \in {"ns_lock", "rm_flush"}
                                 /\ loc[t].q = q
                              \/ /\ pc[t] \in {"drop_flush", "destroy_flush"}
                                 /\ loc[t].acc[loc[t].i] = q}
            IN  /\ occ <= 1
                /\ Cardinality(waiting) = occ
                /\ \A t \in waiting : pairs[q].lock = t
                /\ (pushing # {} /\ pairs[q].lock = NoThread) => occ = 0

\* A write is in flight on queue 1 while the other namespace thread, having
\* selected queue 1 as well, waits for its lock.
OneInFlightWitness ==
    /\ pc["n1"] = "ns_wait"
    /\ loc["n1"].q = 1
    /\ pc["n2"] = "ns_lock"
    /\ loc["n2"].q = 1
    /\ pairs[1].lock = "n1"
    /\ pairs[1].sq.tail # pairs[1].sq.head
(***************************************************************************)
(* C35  CID equals tail at push: every command pushed to the admin SQ or   *)
(* to an I/O SQ carries as its command id the tail of that SQ at the       *)
(* moment it is written to the ring, the index of its slot, under every    *)
(* interleaving of concurrent callers.                                     *)
(***************************************************************************)
CidIsTail ==
    [][/\ admin_sq'.tail # admin_sq.tail
          => admin_sq'.slots[admin_sq.tail].cid = admin_sq.tail
       /\ \A q \in Qids :
            (pairs[q].qid = q /\ pairs'[q].qid = q
             /\ pairs'[q].sq.tail # pairs[q].sq.tail)
            => pairs'[q].sq.slots[pairs[q].sq.tail].cid = pairs[q].sq.tail]_vars
(***************************************************************************)
(* C36  pop_n equivalence: on a CompQueue whose next step entries are all  *)
(* valid (step consecutive pop() calls all return), pop_n(step) returns,   *)
(* leaves head and phase as those step pops leave them, and returns the    *)
(* head and the entry the last of them returns, for every step >= 1; the   *)
(* one-at-a-time branch reaches the same ring after its step-th pop.       *)
(***************************************************************************)
PopNEquivalence ==
    LET seq == PopTimes(hist.start, hist.step) IN
    /\ (out.op = "pop_n" /\ seq.ok) =>
          /\ out.ok
          /\ cq.head = seq.cq.head
          /\ cq.phase = seq.cq.phase
          /\ out.val = seq.head
          /\ out.entry = seq.entry
    /\ (out.op = "pop" /\ hist.pops = hist.step) =>
          /\ seq.ok
          /\ cq = seq.cq
          /\ out.entry = seq.entry

\* pop_n(step) with step >= 2 has returned after crossing the ring wrap on
\* a ring whose next step entries were all valid.
PopNEquivalenceWitness ==
    /\ out.op = "pop_n"
    /\ out.ok
    /\ hist.step >= 2
    /\ PopTimes(hist.start, hist.step).ok
    /\ hist.start.head + hist.step - 1 >= hist.start.len
(***************************************************************************)
(* C37  Deadlock freedom: locks are acquired in one order.  A thread that  *)
(* holds a per-queue lock or the admin lock requests no lock at all, and a *)
(* thread that holds the pool lock requests only per-queue locks; so no    *)
(* thread, following the holder of the lock it requests, and the holder of *)
(* the lock that one requests, and so on, comes back to itself.            *)
(***************************************************************************)
\* The lock the next step of thread t acquires.
LockWanted(t) ==
    LET l == loc[t] IN
    IF pc[t] \in {"select", "rm_lock", "rm_retain", "add_push", "drop_snap",
                  "destroy_begin", "destroy_snap", "destroy_del_snap",
                  "destroy_clear"}
    THEN <<"pool", 0>>
    ELSE IF pc[t] = "adm_lock" THEN <<"admin", 0>>
    ELSE IF pc[t] \in {"sel_filter", "rm_stats", "rm_retain_scan",
                       "destroy_mark"}
    THEN <<"queue", ioq[l.i]>>
    ELSE IF pc[t] \in {"sel_scan", "drop_flush", "destroy_flush",
                       "destroy_del"}
    THEN <<"queue", l.acc[l.i]>>
    ELSE IF pc[t] = "rm_mark" THEN <<"queue", l.vict[l.i]>>
    ELSE IF pc[t] \in {"ns_lock", "rm_flush", "rm_drain"} THEN <<"queue", l.q>>
    ELSE <<"none", 0>>

\* The thread that holds a lock, or NoThread.
LockHolder(lock) ==
    IF lock[1] = "pool" THEN ioq_lock
    ELSE IF lock[1] = "admin" THEN admin_lock
    ELSE IF lock[1] = "queue" THEN pairs[lock[2]].lock
    ELSE NoThread

\* The thread reached from t after n steps along "waits for the holder of".
RECURSIVE WaitChain(_, _)
WaitChain(t, n) ==
    IF n = 0 \/ t = NoThread THEN t
    ELSE WaitChain(LockHolder(LockWanted(t)), n - 1)

HoldsQueueLock(t) == \E q \in Qids : pairs[q].lock = t

LockOrder ==
    \A t \in Threads :
       /\ (HoldsQueueLock(t) \/ admin_lock = t) =>
              /\ LockWanted(t)[1] = "none"
              /\ ioq_lock # t
       /\ ioq_lock = t => LockWanted(t)[1] = "queue"
       /\ \A n \in 1..Cardinality(Threads) : WaitChain(t, n) # t

\* A thread that holds the pool lock requests the lock of a queue that
\* another thread holds.
LockOrderWitness ==
    \E t \in Threads, u \in Threads :
       /\ t # u
       /\ ioq_lock = t
       /\ LockWanted(t)[1] = "queue"
       /\ LockHolder(LockWanted(t)) = u
(***************************************************************************)
(* C38  Operation liveness: under fair scheduling of the threads and a     *)
(* controller that completes every command pushed to a queue that exists,  *)
(* every namespace operation that has started returns, whatever calls of   *)
(* set_ioq_count and drop it is interleaved with.                          *)
(***************************************************************************)
NsOperationReturns ==
    \A t \in NsThreads :
       (pc[t] \notin {"idle", "absent", "done"}) ~> (pc[t] = "done")
(***************************************************************************)
(* C39  Drain termination: the drain loop of a removal ends, the counter   *)
(* being 0 or after MAX_WAIT polls, and the removal goes on to Delete-SQ   *)
(* and Delete-CQ; so a call of set_ioq_count that removes queues returns,  *)
(* the controller completing its flush and delete commands.                *)
(***************************************************************************)
RemovalReturns ==
    \A d \in DevThreads :
       (loc[d].op = "rm" /\ pc[d] # "done") ~> (pc[d] = "done")
(***************************************************************************)
(* C40  Multipath selection: under every strategy and for every list of    *)
(* paths, select_path does not panic; it returns Ok with the id of a path  *)
(* for which is_usable holds when the list has a usable path, and          *)
(* PathFailure when it has none; and handle_path_failure(p), RPFR being    *)
(* enabled, never returns the path p it has just marked Failed.            *)
(***************************************************************************)
SelectPathContract ==
    LET usable == {i \in 1..Len(ctrl.paths) : IsUsable(ctrl.paths[i])}
        called == out.op \in {"select_path", "panic"}
                  \/ (out.op = "handle_path_failure" /\ ctrl.enabled)
    IN  /\ out.op # "panic"
        /\ called =>
              IF usable = {}
              THEN out.res = "PathFailure"
              ELSE /\ out.res = "Ok"
                   /\ \E i \in usable : ctrl.paths[i].path_id = out.val
        /\ (out.op = "handle_path_failure" /\ out.res = "Ok") =>
              out.val # out.arg

=============================================================================
